---- MODULE Spec2Model ----
(***************************************************************************)
(* SeiaPanel: the scheduling-and-archival subsystem.                       *)
(*                                                                         *)
(*   - cron field validation and expression assembly (models/schedule.go)  *)
(*   - the ScheduleService registry over the cron engine                   *)
(*     (services/schedule_service.go)                                      *)
(*   - the schedule HTTP handlers (handlers/schedule.go)                   *)
(*   - the action dispatcher and its guards                                *)
(*   - backup rotation and creation (services/backup_service.go,           *)
(*     handlers/backups.go, models/backup.go)                              *)
(*                                                                         *)
(* Go strings are modelled as sequences of one-character strings so that   *)
(* splitting, trimming and integer parsing are computed, not assumed.      *)
(***************************************************************************)
EXTENDS Integers, Sequences, FiniteSets, TLC

(***************************************************************************)
(* Strings                                                                 *)
(***************************************************************************)
Whitespace == {" ", "\t"}

IsDigit(c) == c \in {"0", "1", "2", "3", "4", "5", "6", "7", "8", "9"}

DigitVal(c) ==
  CASE c = "0" -> 0 [] c = "1" -> 1 [] c = "2" -> 2 [] c = "3" -> 3
    [] c = "4" -> 4 [] c = "5" -> 5 [] c = "6" -> 6 [] c = "7" -> 7
    [] c = "8" -> 8 [] c = "9" -> 9

RECURSIVE DigitsVal(_)
DigitsVal(s) ==
  IF s = <<>> THEN 0
  ELSE 10 * DigitsVal(SubSeq(s, 1, Len(s) - 1)) + DigitVal(s[Len(s)])

\* strconv.Atoi: an optional sign, then one or more decimal digits.  The
\* inputs of this model are far shorter than the 19 digits at which Atoi
\* reports a range error.
AtoiBody(s) == IF s # <<>> /\ s[1] \in {"+", "-"} THEN Tail(s) ELSE s

AtoiOk(s) ==
  /\ AtoiBody(s) # <<>>
  /\ \A i \in 1..Len(AtoiBody(s)) : IsDigit(AtoiBody(s)[i])

AtoiVal(s) ==
  IF s # <<>> /\ s[1] = "-" THEN 0 - DigitsVal(AtoiBody(s))
  ELSE DigitsVal(AtoiBody(s))

\* strings.Contains for a one-character needle
Contains(s, c) == \E i \in 1..Len(s) : s[i] = c

\* strings.HasPrefix / strings.TrimPrefix
HasPrefix(s, p) == Len(s) >= Len(p) /\ SubSeq(s, 1, Len(p)) = p

TrimPrefix(s, p) == IF HasPrefix(s, p) THEN SubSeq(s, Len(p) + 1, Len(s)) ELSE s

IndexOf(s, c) ==
  IF Contains(s, c) THEN CHOOSE i \in 1..Len(s) : s[i] = c /\ \A j \in 1..(i - 1) : s[j] # c
  ELSE 0

\* strings.Split for a one-character separator: n separators give n+1 parts
RECURSIVE Split(_, _)
Split(s, c) ==
  IF IndexOf(s, c) = 0 THEN <<s>>
  ELSE <<SubSeq(s, 1, IndexOf(s, c) - 1)>> \o Split(SubSeq(s, IndexOf(s, c) + 1, Len(s)), c)

\* strings.TrimSpace
RECURSIVE TrimLeft(_)
TrimLeft(s) == IF s # <<>> /\ s[1] \in Whitespace THEN TrimLeft(Tail(s)) ELSE s

RECURSIVE TrimRight(_)
TrimRight(s) ==
  IF s # <<>> /\ s[Len(s)] \in Whitespace THEN TrimRight(SubSeq(s, 1, Len(s) - 1)) ELSE s

TrimSpace(s) == TrimRight(TrimLeft(s))

RECURSIVE DropEmpty(_)
DropEmpty(parts) ==
  IF parts = <<>> THEN <<>>
  ELSE IF Head(parts) = <<>> THEN DropEmpty(Tail(parts))
  ELSE <<Head(parts)>> \o DropEmpty(Tail(parts))

\* strings.Fields: split around runs of white space, no empty parts
Fields(s) ==
  DropEmpty(Split([i \in 1..Len(s) |-> IF s[i] \in Whitespace THEN " " ELSE s[i]], " "))

\* strings.FieldsFunc(s, r == ','): split at commas, no empty parts
FieldsComma(s) == DropEmpty(Split(s, ","))

RECURSIVE Join(_, _)
Join(parts, sep) ==
  IF parts = <<>> THEN <<>>
  ELSE IF Len(parts) = 1 THEN parts[1]
  ELSE parts[1] \o sep \o Join(Tail(parts), sep)

(***************************************************************************)
(* Cron fields: models.ValidateCronField and the expression                *)
(***************************************************************************)
FieldNames == <<"minute", "hour", "day_of_month", "month", "day_of_week">>

FieldMin(fieldName) ==
  CASE fieldName = "minute" -> 0 [] fieldName = "hour" -> 0
    [] fieldName = "day_of_month" -> 1 [] fieldName = "month" -> 1
    [] fieldName = "day_of_week" -> 0

FieldMax(fieldName) ==
  CASE fieldName = "minute" -> 59 [] fieldName = "hour" -> 23
    [] fieldName = "day_of_month" -> 31 [] fieldName = "month" -> 12
    [] fieldName = "day_of_week" -> 6

\* TRUE stands for a nil error in the three validators
validateSingleCronValue(fieldName, value) ==
  /\ AtoiOk(value)
  /\ ~(AtoiVal(value) < FieldMin(fieldName) \/ AtoiVal(value) > FieldMax(fieldName))

validateCronRange(fieldName, start, end) ==
  ~(start < FieldMin(fieldName) \/ end > FieldMax(fieldName))

ValidateCronField(fieldName, value) ==
  IF value = <<>> THEN FALSE
  ELSE IF value = <<"*">> THEN TRUE
  ELSE IF HasPrefix(value, <<"*", "/">>) THEN
    /\ AtoiOk(TrimPrefix(value, <<"*", "/">>))
    /\ ~(AtoiVal(TrimPrefix(value, <<"*", "/">>)) < 1)
  ELSE IF Contains(value, ",") THEN
    \A i \in 1..Len(Split(value, ",")) :
      validateSingleCronValue(fieldName, TrimSpace(Split(value, ",")[i]))
  ELSE IF Contains(value, "-") THEN
    LET parts == Split(value, "-") IN
    /\ Len(parts) = 2
    /\ AtoiOk(TrimSpace(parts[1]))
    /\ AtoiOk(TrimSpace(parts[2]))
    /\ ~(AtoiVal(TrimSpace(parts[1])) >= AtoiVal(TrimSpace(parts[2])))
    /\ validateCronRange(fieldName, AtoiVal(TrimSpace(parts[1])), AtoiVal(TrimSpace(parts[2])))
  ELSE validateSingleCronValue(fieldName, value)

\* no call of the validator yet
NoValidation == [fieldName |-> "", value |-> <<>>, ok |-> FALSE]

\* Schedule.GetCronExpression: "%s %s %s %s %s"
GetCronExpression(s) ==
  Join(<<s.CronMinute, s.CronHour, s.CronDayOfMonth, s.CronMonth, s.CronDayOfWeek>>, <<" ">>)

(***************************************************************************)
(* The cron engine's parser, as cron.AddFunc applies it (robfig/cron v3,   *)
(* standard five-field parser; month and weekday names are outside the     *)
(* alphabet of this model).                                                *)
(***************************************************************************)
mustParseIntOk(expr) == AtoiOk(expr) /\ AtoiVal(expr) >= 0

getRangeOk(expr, min, max) ==
  LET rangeAndStep == Split(expr, "/")
      lowAndHigh   == Split(rangeAndStep[1], "-")
      star         == lowAndHigh[1] \in {<<"*">>, <<"?">>}
      boundsOk     == star \/ ( /\ mustParseIntOk(lowAndHigh[1])
                                /\ Len(lowAndHigh) \in {1, 2}
                                /\ Len(lowAndHigh) = 2 => mustParseIntOk(lowAndHigh[2]) )
      start        == IF star THEN min ELSE AtoiVal(lowAndHigh[1])
      end0         == IF star THEN max
                      ELSE IF Len(lowAndHigh) = 1 THEN start ELSE AtoiVal(lowAndHigh[2])
      stepOk       == Len(rangeAndStep) = 1
                        \/ (Len(rangeAndStep) = 2 /\ mustParseIntOk(rangeAndStep[2]))
      step         == IF Len(rangeAndStep) = 1 THEN 1 ELSE AtoiVal(rangeAndStep[2])
      end          == IF Len(rangeAndStep) = 2 /\ Len(lowAndHigh) = 1 THEN max ELSE end0
  IN /\ boundsOk
     /\ stepOk
     /\ ~(start < min)
     /\ ~(end > max)
     /\ ~(start > end)
     /\ step # 0

getFieldOk(field, min, max) ==
  \A i \in 1..Len(FieldsComma(field)) : getRangeOk(FieldsComma(field)[i], min, max)

\* Parser.Parse: exactly five white-space separated fields, each in range
CronParseOk(spec) ==
  LET fields == Fields(spec) IN
  /\ Len(fields) = 5
  /\ \A i \in 1..5 : getFieldOk(fields[i], FieldMin(FieldNames[i]), FieldMax(FieldNames[i]))

(***************************************************************************)
(* Bounds and input alphabets                                              *)
(***************************************************************************)
MaxScheduleID == 2      \* schedule records ever created
MaxEntryID == 3         \* cron entries ever registered by one process run

Star == <<"*">>

\* form values offered to the handlers for the minute field: accepted by
\* the validator and by the engine ("*", "*/2"), accepted by the validator
\* only ("1, 5"), rejected by the validator ("60")
MinuteInputs == {Star, <<"*", "/", "2">>, <<"1", ",", " ", "5">>, <<"6", "0">>}

NameInputs == {"", "nightly"}

validActions == {"send_command", "start_server", "restart_server", "stop_server", "backup"}

ActionInputs == {"send_command", "reboot"}

CommandInputs == {"", "say hi"}

ServerID == 1           \* the server whose schedules and backups are followed

Forms ==
  [name : NameInputs, cronMinute : MinuteInputs, cronHour : {Star},
   cronDayOfMonth : {Star}, cronMonth : {Star}, cronDayOfWeek : {Star},
   enabled : BOOLEAN, action : ActionInputs, command : CommandInputs]

\* faulty variant: the test for an empty command is missing
ScheduleInputOk_commandUnchecked(f) ==
  /\ f.name # ""
  /\ ValidateCronField("minute", f.cronMinute)
  /\ ValidateCronField("hour", f.cronHour)
  /\ ValidateCronField("day_of_month", f.cronDayOfMonth)
  /\ ValidateCronField("month", f.cronMonth)
  /\ ValidateCronField("day_of_week", f.cronDayOfWeek)
  /\ f.action \in validActions

\* the validation shared by models.CreateSchedule and Schedule.UpdateSchedule
\* (TRUE: no validation error)
ScheduleInputOk(f) ==
  /\ f.name # ""
  /\ ValidateCronField("minute", f.cronMinute)
  /\ ValidateCronField("hour", f.cronHour)
  /\ ValidateCronField("day_of_month", f.cronDayOfMonth)
  /\ ValidateCronField("month", f.cronMonth)
  /\ ValidateCronField("day_of_week", f.cronDayOfWeek)
  /\ f.action \in validActions
  /\ ~(f.action = "send_command" /\ f.command = "")

\* the Schedule record a validated form yields
ScheduleOf(id, f) ==
  [ID |-> id, ServerID |-> ServerID, Name |-> f.name,
   CronMinute |-> f.cronMinute, CronHour |-> f.cronHour,
   CronDayOfMonth |-> f.cronDayOfMonth, CronMonth |-> f.cronMonth,
   CronDayOfWeek |-> f.cronDayOfWeek,
   Enabled |-> f.enabled, Action |-> f.action, Command |-> f.command]

ValidForms == {f \in Forms : ScheduleInputOk(f)}

SchedIDs == 1..MaxScheduleID

\* the schedule values persistence can hold: every one passed validation
ScheduleValues == {ScheduleOf(id, f) : id \in SchedIDs, f \in ValidForms}

(***************************************************************************)
(* State                                                                   *)
(***************************************************************************)
VARIABLES
  dbSchedules,     \* persistence: schedule ID -> Schedule record
  nextScheduleID,  \* persistence: the next primary key of a schedule
  schedules,       \* ScheduleService.schedules: schedule ID -> cron entry ID
  entries,         \* the cron engine's live entries: [ID, schedule captured]
  nextEntryID,     \* the cron engine's entry counter
  loaded,          \* InitScheduler has run
  lastCall,        \* the last request or service call and its outcome
  running,         \* process supervisor: the server process is running
  backupPath,      \* server.BackupPath is configured (not "")
  maxBackups,      \* server.MaxBackups
  backups,         \* persistence: the Backup records
  nextBackupID,    \* persistence: the next primary key of a backup
  files,           \* the archive files on disk, by path
  now,             \* the clock persistence stamps created_at with
  proc,            \* the executions in progress: firings and requests
  overlapped,      \* history: two backup operations have run at once
  tree,            \* the file system: the nodes [path, isDir] that exist
  xp,              \* the restore or extraction in progress
  mu,              \* ScheduleService.mu: the caller holding it, or none
  call,            \* the concurrent service calls in progress, by caller
  validated        \* the last call of ValidateCronField: field, value, result

schedVars == <<dbSchedules, nextScheduleID, schedules, entries, nextEntryID, loaded, lastCall>>

execVars == <<running, backupPath, maxBackups, backups, nextBackupID, files, now, proc, overlapped>>

archVars == <<tree, xp>>

lockVars == <<mu, call>>

vars == <<dbSchedules, nextScheduleID, schedules, entries, nextEntryID, loaded, lastCall,
          running, backupPath, maxBackups, backups, nextBackupID, files, now, proc, overlapped,
          tree, xp, mu, call, validated>>

\* the ScheduleService and its engine as one value
Core == [schedules |-> schedules, entries |-> entries, nextID |-> nextEntryID]

EmptyCore == [schedules |-> <<>>, entries |-> {}, nextID |-> 0]

SetCore(cs) ==
  /\ schedules' = cs.schedules
  /\ entries' = cs.entries
  /\ nextEntryID' = cs.nextID

NoSchedule == ScheduleOf(0, CHOOSE f \in ValidForms : TRUE)

NoCall ==
  [op |-> "none", id |-> 0, enabled |-> FALSE, err |-> FALSE,
   registered |-> FALSE, schedule |-> NoSchedule]

\* a request: its schedule ID, the enabled flag it carries, the error it
\* answered, and whether the ID was registered when it arrived
Call(op, id, enabled, err) ==
  [op |-> op, id |-> id, enabled |-> enabled, err |-> err,
   registered |-> id \in DOMAIN schedules, schedule |-> NoSchedule]

\* a service call with the schedule value it was given
CallWith(op, schedule, err) ==
  [op |-> op, id |-> schedule.ID, enabled |-> schedule.Enabled, err |-> err,
   registered |-> schedule.ID \in DOMAIN schedules, schedule |-> schedule]

MapRemove(f, k) == [x \in DOMAIN f \ {k} |-> f[x]]

MapPut(f, k, v) == [x \in DOMAIN f \cup {k} |-> IF x = k THEN v ELSE f[x]]

(***************************************************************************)
(* ScheduleService (services/schedule_service.go).  Every operator takes   *)
(* the service state and returns the new state and whether it returned an  *)
(* error; the bodies of AddSchedule, RemoveSchedule and LoadAllSchedules    *)
(* run under s.mu.                                                         *)
(***************************************************************************)
\* cron.AddFunc returns an error exactly when the expression does not parse
CronAddFuncOk(cronExpr) == CronParseOk(cronExpr)

\* faulty variant: the "already exists" test of lines 83-85 is missing
addScheduleInternal_noDuplicateCheck(cs, schedule) ==
  IF ~CronAddFuncOk(GetCronExpression(schedule)) THEN [cs |-> cs, err |-> TRUE]
  ELSE [cs |-> [schedules |-> MapPut(cs.schedules, schedule.ID, cs.nextID + 1),
                entries |-> cs.entries \cup {[ID |-> cs.nextID + 1, schedule |-> schedule]},
                nextID |-> cs.nextID + 1],
        err |-> FALSE]

addScheduleInternal(cs, schedule) ==
  IF schedule.ID \in DOMAIN cs.schedules THEN [cs |-> cs, err |-> TRUE]
  ELSE IF ~CronAddFuncOk(GetCronExpression(schedule)) THEN [cs |-> cs, err |-> TRUE]
  ELSE [cs |-> [schedules |-> MapPut(cs.schedules, schedule.ID, cs.nextID + 1),
                entries |-> cs.entries \cup {[ID |-> cs.nextID + 1, schedule |-> schedule]},
                nextID |-> cs.nextID + 1],
        err |-> FALSE]

AddSchedule(cs, schedule) ==
  IF ~schedule.Enabled THEN [cs |-> cs, err |-> FALSE]
  ELSE addScheduleInternal(cs, schedule)

\* faulty variant: an unregistered ID is reported as an error
RemoveSchedule_absentIsError(cs, scheduleID) ==
  IF scheduleID \notin DOMAIN cs.schedules THEN [cs |-> cs, err |-> TRUE]
  ELSE [cs |-> [schedules |-> MapRemove(cs.schedules, scheduleID),
                entries |-> {e \in cs.entries : e.ID # cs.schedules[scheduleID]},
                nextID |-> cs.nextID],
        err |-> FALSE]

RemoveSchedule(cs, scheduleID) ==
  IF scheduleID \notin DOMAIN cs.schedules THEN [cs |-> cs, err |-> FALSE]
  ELSE [cs |-> [schedules |-> MapRemove(cs.schedules, scheduleID),
                entries |-> {e \in cs.entries : e.ID # cs.schedules[scheduleID]},
                nextID |-> cs.nextID],
        err |-> FALSE]

UpdateSchedule(cs, schedule) ==
  IF RemoveSchedule(cs, schedule.ID).err THEN RemoveSchedule(cs, schedule.ID)
  ELSE IF schedule.Enabled THEN AddSchedule(RemoveSchedule(cs, schedule.ID).cs, schedule)
  ELSE [cs |-> RemoveSchedule(cs, schedule.ID).cs, err |-> FALSE]

\* models.GetAllEnabledSchedules: the enabled records, in primary-key order
RECURSIVE InKeyOrder(_, _)
InKeyOrder(db, ids) ==
  IF ids = {} THEN <<>>
  ELSE LET first == CHOOSE id \in ids : \A other \in ids : id <= other
       IN <<db[first]>> \o InKeyOrder(db, ids \ {first})

GetAllEnabledSchedules(db) == InKeyOrder(db, {id \in DOMAIN db : db[id].Enabled})

\* faulty variant: the loop returns at the first registration that fails
RECURSIVE LoadEach_stopAtFailure(_, _)
LoadEach_stopAtFailure(cs, list) ==
  IF list = <<>> THEN cs
  ELSE IF addScheduleInternal(cs, Head(list)).err THEN cs
  ELSE LoadEach_stopAtFailure(addScheduleInternal(cs, Head(list)).cs, Tail(list))

\* the loop of LoadAllSchedules: a failed registration is logged and skipped
RECURSIVE LoadEach(_, _)
LoadEach(cs, list) ==
  IF list = <<>> THEN cs
  ELSE LoadEach(addScheduleInternal(cs, Head(list)).cs, Tail(list))

LoadAllSchedules(cs, db, readOk) ==
  IF ~readOk THEN [cs |-> cs, err |-> TRUE]
  ELSE [cs |-> LoadEach(cs, GetAllEnabledSchedules(db)), err |-> FALSE]

(***************************************************************************)
(* Process start (main.go, InitScheduler) and the schedule handlers        *)
(* (handlers/schedule.go), one request at a time: each action is a whole   *)
(* request.  A request for an unknown schedule ID answers 404 and changes  *)
(* nothing; it is left out.                                                *)
(***************************************************************************)
\* InitScheduler: a fresh service, then LoadAllSchedules; its error is logged
StartupLoadAll ==
  /\ ~loaded
  /\ \E readOk \in BOOLEAN :
       /\ SetCore(LoadAllSchedules(EmptyCore, dbSchedules, readOk).cs)
       /\ lastCall' = Call("LoadAllSchedules", 0, FALSE,
                           LoadAllSchedules(EmptyCore, dbSchedules, readOk).err)
  /\ loaded' = TRUE
  /\ UNCHANGED <<dbSchedules, nextScheduleID>>
  /\ UNCHANGED <<execVars, archVars, lockVars, validated>>

\* the process exits and is started again: the service state is in memory only
Restart ==
  /\ loaded
  /\ loaded' = FALSE
  /\ SetCore(EmptyCore)
  /\ lastCall' = NoCall
  /\ UNCHANGED <<dbSchedules, nextScheduleID>>
  /\ UNCHANGED <<execVars, archVars, lockVars, validated>>

HandleCreateSchedule ==
  /\ loaded
  /\ nextScheduleID <= MaxScheduleID
  /\ nextEntryID < MaxEntryID
  /\ \E f \in Forms :
       LET schedule == ScheduleOf(nextScheduleID, f)
           r == IF f.enabled THEN AddSchedule(Core, schedule)
                ELSE [cs |-> Core, err |-> FALSE]
       IN IF ~ScheduleInputOk(f)
            \* models.CreateSchedule rejects the form: 400
            THEN /\ lastCall' = [Call("CreateSchedule", 0, FALSE, TRUE)
                                   EXCEPT !.schedule = ScheduleOf(0, f)]
                 /\ UNCHANGED <<dbSchedules, nextScheduleID, schedules, entries, nextEntryID>>
            ELSE \/ /\ lastCall' = Call("CreateSchedule", 0, FALSE, TRUE)   \* DB.Create fails: 400
                    /\ UNCHANGED <<dbSchedules, nextScheduleID, schedules, entries, nextEntryID>>
                 \/ /\ dbSchedules' = MapPut(dbSchedules, schedule.ID, schedule)
                    /\ nextScheduleID' = nextScheduleID + 1
                    /\ SetCore(r.cs)     \* a registration error is reported, not undone
                    /\ lastCall' = [Call("CreateSchedule", schedule.ID, f.enabled, r.err)
                                      EXCEPT !.schedule = schedule]
  /\ UNCHANGED loaded
  /\ UNCHANGED <<execVars, archVars, lockVars, validated>>

HandleUpdateSchedule ==
  /\ loaded
  /\ nextEntryID < MaxEntryID
  /\ \E id \in DOMAIN dbSchedules, f \in Forms :
       LET schedule == ScheduleOf(id, f)
           r == UpdateSchedule(Core, schedule)
       IN IF ~ScheduleInputOk(f)
            \* Schedule.UpdateSchedule rejects the form before assigning a field: 400
            THEN /\ lastCall' = [Call("UpdateSchedule", id, FALSE, TRUE)
                                   EXCEPT !.schedule = schedule]
                 /\ UNCHANGED <<dbSchedules, schedules, entries, nextEntryID>>
            ELSE \/ /\ lastCall' = Call("UpdateSchedule", id, FALSE, TRUE)   \* DB.Save fails: 400
                    /\ UNCHANGED <<dbSchedules, schedules, entries, nextEntryID>>
                 \/ /\ dbSchedules' = MapPut(dbSchedules, id, schedule)
                    /\ SetCore(r.cs)
                    /\ lastCall' = [Call("UpdateSchedule", id, f.enabled, r.err)
                                      EXCEPT !.schedule = schedule]
  /\ UNCHANGED <<nextScheduleID, loaded>>
  /\ UNCHANGED <<execVars, archVars, lockVars, validated>>

HandleToggleSchedule ==
  /\ loaded
  /\ nextEntryID < MaxEntryID
  /\ \E id \in DOMAIN dbSchedules :
       LET schedule == [dbSchedules[id] EXCEPT !.Enabled = ~dbSchedules[id].Enabled] IN
       \/ /\ lastCall' = Call("ToggleSchedule", id, schedule.Enabled, TRUE)   \* DB.Save fails: 500
          /\ UNCHANGED <<dbSchedules, schedules, entries, nextEntryID>>
       \/ /\ dbSchedules' = MapPut(dbSchedules, id, schedule)
          /\ SetCore(UpdateSchedule(Core, schedule).cs)     \* the result is dropped
          /\ lastCall' = Call("ToggleSchedule", id, schedule.Enabled, FALSE)
  /\ UNCHANGED <<nextScheduleID, loaded>>
  /\ UNCHANGED <<execVars, archVars, lockVars, validated>>

HandleDeleteSchedule ==
  /\ loaded
  /\ \E id \in DOMAIN dbSchedules :
       /\ SetCore(RemoveSchedule(Core, id).cs)              \* before the record goes
       /\ \/ /\ lastCall' = Call("DeleteSchedule", id, FALSE, TRUE)   \* schedule.Delete fails: 500
             /\ UNCHANGED dbSchedules
          \/ /\ dbSchedules' = MapRemove(dbSchedules, id)
             /\ lastCall' = Call("DeleteSchedule", id, FALSE, FALSE)
  /\ UNCHANGED <<nextScheduleID, loaded>>
  /\ UNCHANGED <<execVars, archVars, lockVars, validated>>

(***************************************************************************)
(* The ScheduleService called directly, as a caller holding any validated  *)
(* schedule value may call it.                                             *)
(***************************************************************************)
CallAddSchedule ==
  /\ loaded
  /\ nextEntryID < MaxEntryID
  /\ \E schedule \in ScheduleValues :
       /\ SetCore(AddSchedule(Core, schedule).cs)
       /\ lastCall' = CallWith("AddSchedule", schedule, AddSchedule(Core, schedule).err)
  /\ UNCHANGED <<dbSchedules, nextScheduleID, loaded>>
  /\ UNCHANGED <<execVars, archVars, lockVars, validated>>

CallRemoveSchedule ==
  /\ loaded
  /\ \E scheduleID \in SchedIDs :
       /\ SetCore(RemoveSchedule(Core, scheduleID).cs)
       /\ lastCall' = Call("RemoveSchedule", scheduleID, FALSE,
                           RemoveSchedule(Core, scheduleID).err)
  /\ UNCHANGED <<dbSchedules, nextScheduleID, loaded>>
  /\ UNCHANGED <<execVars, archVars, lockVars, validated>>

CallUpdateSchedule ==
  /\ loaded
  /\ nextEntryID < MaxEntryID
  /\ \E schedule \in ScheduleValues :
       /\ SetCore(UpdateSchedule(Core, schedule).cs)
       /\ lastCall' = CallWith("UpdateSchedule", schedule, UpdateSchedule(Core, schedule).err)
  /\ UNCHANGED <<dbSchedules, nextScheduleID, loaded>>
  /\ UNCHANGED <<execVars, archVars, lockVars, validated>>

(***************************************************************************)
(* Executions: cron firings, manual runs and backup requests.  Each is a   *)
(* goroutine of its own; one action is one access to shared state          *)
(* (persistence, the file system, the process supervisor).                 *)
(***************************************************************************)
MaxBackupID == 4        \* backup records ever inserted, the other server's included
MaxTime == 2            \* created_at values
NumSuffixes == 2        \* archive file names GenerateBackupFileName draws from
MaxConfigured == 2      \* the largest MaxBackups the model configures

Procs == {"p1", "p2"}

OtherServerID == ServerID + 1

NoBackup == [ID |-> 0, ServerID |-> 0, CreatedAt |-> 0, FilePath |-> 0]

Idle ==
  [pc |-> "idle", kind |-> "none", schedule |-> NoSchedule,
   srvPath |-> FALSE, srvMax |-> 0,      \* the Server value read at the start
   sawRunning |-> "unread",              \* what IsServerRunning answered
   invoked |-> "none",                   \* the supervisor operation called
   count |-> 0, oldest |-> NoBackup, path |-> 0,
   did |-> <<>>,                         \* the backup steps completed, in order
   result |-> "none"]

BackupPCs == {"rotate_count", "rotate_oldest", "rotate_remove", "rotate_delete",
              "archive", "insert", "cleanup"}

BackupActive(p) == proc[p].pc \in BackupPCs

\* models.CountBackups / models.GetOldestBackup: WHERE server_id = ?
BackupsOf(bs, serverID) == {b \in bs : b.ServerID = serverID}

CountBackups(bs, serverID) == Cardinality(BackupsOf(bs, serverID))

\* faulty variant: ORDER BY created_at DESC
Older_newestFirst(b, c) == b.CreatedAt > c.CreatedAt \/ (b.CreatedAt = c.CreatedAt /\ b.ID >= c.ID)

\* ORDER BY created_at ASC, then the primary key First() appends
Older(b, c) == b.CreatedAt < c.CreatedAt \/ (b.CreatedAt = c.CreatedAt /\ b.ID <= c.ID)

\* faulty variant: the WHERE server_id = ? clause is missing
GetOldestBackup_anyServer(bs, serverID) ==
  IF bs = {} THEN NoBackup
  ELSE CHOOSE b \in bs : \A c \in bs : Older(b, c)

GetOldestBackup(bs, serverID) ==
  IF BackupsOf(bs, serverID) = {} THEN NoBackup       \* ErrRecordNotFound
  ELSE CHOOSE b \in BackupsOf(bs, serverID) : \A c \in BackupsOf(bs, serverID) : Older(b, c)

\* faulty variant: count > maxBackups
RotationNeeded_aboveOnly(count, max) == count > max

\* RotateBackups: the oldest backup goes when the limit is reached
RotationNeeded(count, max) == count >= max

\* the process supervisor
IsServerRunning(r) == r

\* faulty variant: the IsServerRunning test is missing
GuardHolds_unguarded(action, r) == TRUE

GuardHolds(action, r) ==
  IF action = "start_server" THEN ~IsServerRunning(r) ELSE IsServerRunning(r)

SupervisorOp(action) ==
  CASE action = "send_command" -> "SendCommand"
    [] action = "start_server" -> "StartServer"
    [] action = "restart_server" -> "RestartServer"
    [] action = "stop_server" -> "StopServer"

\* the running state a supervisor operation leaves, by whether it succeeded
SupervisorEffect(op, r, ok) ==
  CASE op = "SendCommand" -> r
    [] op = "StartServer" -> IF ok THEN TRUE ELSE r
    [] op = "RestartServer" -> IF ok THEN TRUE ELSE FALSE
    [] op = "StopServer" -> IF ok THEN FALSE ELSE r

Set(p, f) == proc' = [proc EXCEPT ![p] = f]

Done(l, result) == [l EXCEPT !.pc = "done", !.result = result]

\* how many more backup records the bound leaves room for
RoomForBackup == nextBackupID + Cardinality({q \in Procs : BackupActive(q)}) <= MaxBackupID

EnterBackup(p) == overlapped' = (overlapped \/ \E q \in Procs \ {p} : BackupActive(q))

\* faulty variant: the backup-path test is missing
BackupConfigured_unchecked(l) == TRUE

\* server.BackupPath != "": executeBackup and handlers.CreateBackup go on
BackupConfigured(l) == l.srvPath

\* faulty variant: a disabled schedule is not dispatched
Dispatch_enabledOnly(l) ==
  IF ~l.schedule.Enabled THEN Done(l, "skipped")
  ELSE IF l.schedule.Action \in {"send_command", "start_server", "restart_server", "stop_server"}
    THEN [l EXCEPT !.pc = "guard"]
  ELSE IF l.schedule.Action = "backup"
    THEN IF ~BackupConfigured(l) THEN Done(l, "skipped")
         ELSE [l EXCEPT !.pc = "rotate_count"]
  ELSE Done(l, "unknown_action")

\* the dispatch of executeSchedule once the server is in hand
Dispatch(l) ==
  IF l.schedule.Action \in {"send_command", "start_server", "restart_server", "stop_server"}
    THEN [l EXCEPT !.pc = "guard"]
  ELSE IF l.schedule.Action = "backup"
    THEN IF ~BackupConfigured(l) THEN Done(l, "skipped")    \* executeBackup: no backup path
         ELSE [l EXCEPT !.pc = "rotate_count"]
  ELSE Done(l, "unknown_action")

\* the cron engine runs a live entry's callback: executeSchedule(schedule)
\* with the schedule captured when the entry was registered
Fire(p) ==
  /\ loaded
  /\ proc[p].pc = "idle"
  /\ \E e \in entries :
       Set(p, [Idle EXCEPT !.pc = "exec", !.kind = "fired", !.schedule = e.schedule])
  /\ UNCHANGED <<running, backupPath, maxBackups, backups, nextBackupID, files, now, overlapped>>
  /\ UNCHANGED <<schedVars, archVars, lockVars, validated>>

\* handlers.ExecuteSchedule: the record is read, then ExecuteScheduleManually
ExecuteScheduleManually(p) ==
  /\ loaded
  /\ proc[p].pc = "idle"
  /\ \E id \in DOMAIN dbSchedules :
       Set(p, [Idle EXCEPT !.pc = "exec", !.kind = "manual", !.schedule = dbSchedules[id]])
  /\ UNCHANGED <<running, backupPath, maxBackups, backups, nextBackupID, files, now, overlapped>>
  /\ UNCHANGED <<schedVars, archVars, lockVars, validated>>

\* executeSchedule: models.GetServerByID, then the switch on schedule.Action
executeSchedule(p) ==
  /\ proc[p].pc = "exec"
  /\ proc[p].schedule.Action = "backup" => RoomForBackup
  /\ \E found \in BOOLEAN :
       LET l == [proc[p] EXCEPT !.srvPath = backupPath, !.srvMax = maxBackups]
       IN /\ Set(p, IF found THEN Dispatch(l) ELSE Done(proc[p], "no_server"))
          /\ IF found /\ Dispatch(l).pc = "rotate_count" THEN EnterBackup(p)
             ELSE UNCHANGED overlapped
  /\ UNCHANGED <<running, backupPath, maxBackups, backups, nextBackupID, files, now>>
  /\ UNCHANGED <<schedVars, archVars, lockVars, validated>>

\* executeSendCommand / executeStartServer / executeRestartServer /
\* executeStopServer: the IsServerRunning test
CheckGuard(p) ==
  /\ proc[p].pc = "guard"
  /\ LET l == [proc[p] EXCEPT !.sawRunning = IF IsServerRunning(running) THEN "yes" ELSE "no"]
     IN Set(p, IF GuardHolds(l.schedule.Action, running) THEN [l EXCEPT !.pc = "invoke"]
               ELSE Done(l, "skipped"))
  /\ UNCHANGED <<running, backupPath, maxBackups, backups, nextBackupID, files, now, overlapped>>
  /\ UNCHANGED <<schedVars, archVars, lockVars, validated>>

\* ... and the supervisor call behind it; its error is logged
InvokeSupervisor(p) ==
  /\ proc[p].pc = "invoke"
  /\ \E ok \in BOOLEAN :
       /\ running' = SupervisorEffect(SupervisorOp(proc[p].schedule.Action), running, ok)
       /\ Set(p, Done([proc[p] EXCEPT !.invoked = SupervisorOp(proc[p].schedule.Action)],
                      IF ok THEN "ok" ELSE "error"))
  /\ UNCHANGED <<backupPath, maxBackups, backups, nextBackupID, files, now, overlapped>>
  /\ UNCHANGED <<schedVars, archVars, lockVars, validated>>

\* handlers.UpdateBackupSettings accepts max_backups from 1 to 3
MaxBackupsLimit == 3

\* handlers.UpdateBackupSettings: a non-empty path and a limit in range are
\* stored; an empty path, a limit out of range, a path that cannot be
\* created or a failed save change nothing
HandleUpdateBackupSettings ==
  /\ loaded
  /\ \E path \in BOOLEAN, max \in 0..MaxConfigured, saved \in BOOLEAN :
       IF path /\ ~(max < 1 \/ max > MaxBackupsLimit) /\ saved
         THEN backupPath' = TRUE /\ maxBackups' = max
         ELSE UNCHANGED <<backupPath, maxBackups>>
  /\ UNCHANGED <<running, backups, nextBackupID, files, now, proc, overlapped>>
  /\ UNCHANGED <<schedVars, archVars, lockVars, validated>>

\* handlers.CreateBackup up to the backup-path check
HandleCreateBackup(p) ==
  /\ loaded
  /\ proc[p].pc = "idle"
  /\ RoomForBackup
  /\ LET l == [Idle EXCEPT !.kind = "http", !.srvPath = backupPath, !.srvMax = maxBackups]
     IN IF ~BackupConfigured(l) THEN Set(p, Done(l, "skipped")) /\ UNCHANGED overlapped   \* 400
        ELSE Set(p, [l EXCEPT !.pc = "rotate_count"]) /\ EnterBackup(p)
  /\ UNCHANGED <<running, backupPath, maxBackups, backups, nextBackupID, files, now>>
  /\ UNCHANGED <<schedVars, archVars, lockVars, validated>>

\* RotateBackups: models.CountBackups and the limit test
RotateCount(p) ==
  /\ proc[p].pc = "rotate_count"
  /\ \/ Set(p, Done(proc[p], "error"))                  \* the count fails
     \/ LET l == [proc[p] EXCEPT !.count = CountBackups(backups, ServerID)]
        IN Set(p, IF RotationNeeded(l.count, l.srvMax) THEN [l EXCEPT !.pc = "rotate_oldest"]
                  ELSE [l EXCEPT !.pc = "archive", !.did = <<"rotate">>])
  /\ UNCHANGED <<running, backupPath, maxBackups, backups, nextBackupID, files, now, overlapped>>
  /\ UNCHANGED <<schedVars, archVars, lockVars, validated>>

\* RotateBackups: models.GetOldestBackup
RotateOldest(p) ==
  /\ proc[p].pc = "rotate_oldest"
  /\ \/ Set(p, Done(proc[p], "error"))                  \* the query fails
     \/ Set(p, IF GetOldestBackup(backups, ServerID) = NoBackup THEN Done(proc[p], "error")
               ELSE [proc[p] EXCEPT !.pc = "rotate_remove",
                                    !.oldest = GetOldestBackup(backups, ServerID)])
  /\ UNCHANGED <<running, backupPath, maxBackups, backups, nextBackupID, files, now, overlapped>>
  /\ UNCHANGED <<schedVars, archVars, lockVars, validated>>

\* RotateBackups: os.Remove of the oldest backup's file; a failure is only printed
RotateRemoveFile(p) ==
  /\ proc[p].pc = "rotate_remove"
  /\ \/ files' = files \ {proc[p].oldest.FilePath}
     \/ UNCHANGED files
  /\ Set(p, [proc[p] EXCEPT !.pc = "rotate_delete"])
  /\ UNCHANGED <<running, backupPath, maxBackups, backups, nextBackupID, now, overlapped>>
  /\ UNCHANGED <<schedVars, archVars, lockVars, validated>>

\* RotateBackups: oldestBackup.Delete
RotateDelete(p) ==
  /\ proc[p].pc = "rotate_delete"
  /\ \/ Set(p, Done(proc[p], "error")) /\ UNCHANGED backups
     \/ /\ backups' = {b \in backups : b.ID # proc[p].oldest.ID}
        /\ Set(p, [proc[p] EXCEPT !.pc = "archive", !.did = <<"rotate">>])
  /\ UNCHANGED <<running, backupPath, maxBackups, nextBackupID, files, now, overlapped>>
  /\ UNCHANGED <<schedVars, archVars, lockVars, validated>>

\* GenerateBackupFileName and CreateTarGzBackup: the directory or the file
\* cannot be created, or the walk fails with the file already there, or the
\* archive is complete
CreateTarGzBackup(p) ==
  /\ proc[p].pc = "archive"
  /\ \E path \in 1..NumSuffixes :
       \/ Set(p, Done(proc[p], "error")) /\ UNCHANGED files
       \/ Set(p, Done(proc[p], "error")) /\ files' = files \cup {path}
       \/ /\ files' = files \cup {path}
          /\ Set(p, [proc[p] EXCEPT !.pc = "insert", !.path = path,
                                    !.did = Append(proc[p].did, "archive")])
  /\ UNCHANGED <<running, backupPath, maxBackups, backups, nextBackupID, now, overlapped>>
  /\ UNCHANGED <<schedVars, archVars, lockVars, validated>>

\* models.CreateBackup; handlers.CreateBackup removes the file when it fails,
\* executeBackup only logs
CreateBackup(p) ==
  /\ proc[p].pc = "insert"
  /\ \/ /\ Set(p, IF proc[p].kind = "http" THEN [proc[p] EXCEPT !.pc = "cleanup"]
                  ELSE Done(proc[p], "error"))
        /\ UNCHANGED <<backups, nextBackupID, now>>
     \/ \E t \in {now, now + 1} :
          /\ t <= MaxTime
          /\ backups' = backups \cup {[ID |-> nextBackupID, ServerID |-> ServerID,
                                       CreatedAt |-> t, FilePath |-> proc[p].path]}
          /\ nextBackupID' = nextBackupID + 1
          /\ now' = t
          /\ Set(p, Done([proc[p] EXCEPT !.did = Append(proc[p].did, "insert")], "ok"))
  /\ UNCHANGED <<running, backupPath, maxBackups, files, overlapped>>
  /\ UNCHANGED <<schedVars, archVars, lockVars, validated>>

\* handlers.CreateBackup: os.Remove(backupPath) after a failed insert
CleanupFile(p) ==
  /\ proc[p].pc = "cleanup"
  /\ files' = files \ {proc[p].path}
  /\ Set(p, Done(proc[p], "error"))
  /\ UNCHANGED <<running, backupPath, maxBackups, backups, nextBackupID, now, overlapped>>
  /\ UNCHANGED <<schedVars, archVars, lockVars, validated>>

\* the firing's goroutine ends, or the request is answered
Return(p) ==
  /\ proc[p].pc = "done"
  /\ Set(p, Idle)
  /\ UNCHANGED <<running, backupPath, maxBackups, backups, nextBackupID, files, now, overlapped>>
  /\ UNCHANGED <<schedVars, archVars, lockVars, validated>>

\* the server process is started or stopped by something else: the console
\* page, a crash
SupervisorEvent ==
  /\ running' = ~running
  /\ UNCHANGED <<backupPath, maxBackups, backups, nextBackupID, files, now, proc, overlapped>>
  /\ UNCHANGED <<schedVars, archVars, lockVars, validated>>

(***************************************************************************)
(* The file system, restore and the extraction routines                    *)
(***************************************************************************)
\* path/filepath.Clean on a slash-separated path: the components that remain
RECURSIVE CleanComponents(_, _, _)
CleanComponents(comps, stack, rooted) ==
  IF comps = <<>> THEN stack
  ELSE LET c == Head(comps)
           rest == Tail(comps)
       IN IF c = <<".">> THEN CleanComponents(rest, stack, rooted)
          ELSE IF c = <<".", ".">>
            THEN IF stack # <<>> /\ stack[Len(stack)] # <<".", ".">>
                   THEN CleanComponents(rest, SubSeq(stack, 1, Len(stack) - 1), rooted)
                   ELSE IF rooted THEN CleanComponents(rest, stack, rooted)
                        ELSE CleanComponents(rest, Append(stack, c), rooted)
            ELSE CleanComponents(rest, Append(stack, c), rooted)

\* filepath.Clean
Clean(path) ==
  IF path = <<>> THEN <<".">>
  ELSE LET rooted == path[1] = "/"
           stack == CleanComponents(DropEmpty(Split(path, "/")), <<>>, rooted)
       IN IF rooted THEN <<"/">> \o Join(stack, <<"/">>)
          ELSE IF stack = <<>> THEN <<".">> ELSE Join(stack, <<"/">>)

\* filepath.Join of two elements: empty elements are ignored, the result is cleaned
filepathJoin(a, b) ==
  IF a = <<>> /\ b = <<>> THEN <<>>
  ELSE IF a = <<>> THEN Clean(b)
  ELSE IF b = <<>> THEN Clean(a)
  ELSE Clean(a \o <<"/">> \o b)

\* the index of the last separator of a path, 0 when it has none
LastSlash(path) ==
  IF Contains(path, "/") THEN CHOOSE i \in 1..Len(path) : path[i] = "/" /\ \A j \in (i+1)..Len(path) : path[j] # "/"
  ELSE 0

\* filepath.Dir
Dir(path) == Clean(SubSeq(path, 1, LastSlash(path)))

\* a cleaned path and the directories above it, up to the root
RECURSIVE SelfAndAncestors(_)
SelfAndAncestors(path) ==
  IF Dir(path) = path THEN {path} ELSE {path} \cup SelfAndAncestors(Dir(path))

DirNode(path) == [path |-> path, isDir |-> TRUE]

FileNode(path) == [path |-> path, isDir |-> FALSE]

Paths(t) == {n.path : n \in t}

\* os.MkdirAll: fails when the path or a directory above it is a regular file
MkdirAll(t, path) ==
  IF \E a \in SelfAndAncestors(path) : FileNode(a) \in t
    THEN [err |-> TRUE, tree |-> t]
    ELSE [err |-> FALSE, tree |-> t \cup {DirNode(a) : a \in SelfAndAncestors(path)}]

\* os.Create: truncates a regular file, fails on a directory or a missing parent
Create(t, path) ==
  IF DirNode(path) \in t \/ DirNode(Dir(path)) \notin t
    THEN [err |-> TRUE, tree |-> t]
    ELSE [err |-> FALSE, tree |-> t \cup {FileNode(path)}]

\* faulty variant: nothing is removed
RemoveAll_nothing(t, path) == t

\* os.RemoveAll
RemoveAll(t, path) == {n \in t : n.path # path /\ ~HasPrefix(n.path, path \o <<"/">>)}

\* the characters of the paths in use, in byte order
CharOrder == <<".", "/", "a", "b", "f", "m", "n", "w", "x", "z">>

CharRank(c) == CHOOSE i \in 1..Len(CharOrder) : CharOrder[i] = c

\* string comparison, as os.ReadDir sorts the names
RECURSIVE NameLess(_, _)
NameLess(p, q) ==
  IF q = <<>> THEN FALSE
  ELSE IF p = <<>> THEN TRUE
  ELSE IF Head(p) = Head(q) THEN NameLess(Tail(p), Tail(q))
  ELSE CharRank(Head(p)) < CharRank(Head(q))

\* os.ReadDir joined with the directory: the paths of the entries of a directory
ReadDir(t, dirPath) == {n.path : n \in {m \in t : m.path # dirPath /\ Dir(m.path) = dirPath}}

\* the entry the loop of clearDirectory reaches first
FirstEntry(pending) == CHOOSE p \in pending : \A q \in pending \ {p} : NameLess(p, q)

\* faulty variant: no path is ever reported missing
IsNotExist_never(t, path) == FALSE

\* os.Stat followed by os.IsNotExist; every path in use has its parent directories
IsNotExist(t, path) == path \notin Paths(t)

\* the file manager's traversal check: the target lies under "<root>/"
InsideFileManager(target, destPath) == HasPrefix(target, Clean(destPath) \o <<"/">>)

\* the restore's traversal check: filepath.HasPrefix is a plain string prefix
InsideRestore(target, destPath) == HasPrefix(Clean(target), Clean(destPath))

EntryAllowed(routine, target, destPath) ==
  IF routine = "restore" THEN InsideRestore(target, destPath) ELSE InsideFileManager(target, destPath)

\* the server's folder, a file in it, an uploaded archive in it, a backup archive
ServerFolder == <<"/", "a">>

Sentinel == <<"/", "a", "/", "w">>

UploadedArchive == <<"/", "a", "/", "z">>

BackupArchive == <<"/", "b">>

\* a backup path and a server folder that are not on disk
MissingArchive == <<"/", "n">>

MissingFolder == <<"/", "m">>

InitTree ==
  {DirNode(<<"/">>), DirNode(ServerFolder), FileNode(Sentinel), FileNode(UploadedArchive), FileNode(BackupArchive)}

\* the names an archive entry can carry: inside the root, the root itself,
\* above the root, and a sibling whose path begins with the root's
EntryNames == {<<"f">>, <<".">>, <<".", ".", "/", "x">>, <<".", ".", "/", "a", "b">>}

MaxEntries == 2

ArchiveEntries == [name : EntryNames, isDir : BOOLEAN]

Archives == UNION {[1..n -> ArchiveEntries] : n \in 0..MaxEntries}

FileManagerRoutines == {"targz", "tar", "zip"}

NoExtraction ==
  [pc |-> "idle", routine |-> "none", src |-> <<>>, dest |-> <<>>, archive |-> <<>>,
   i |-> 0, pending |-> {}, err |-> "none", before |-> {}]

XDone(x, err) == [x EXCEPT !.pc = "done", !.err = err]

\* handlers.RestoreBackup reaching RestoreBackupFromArchive
RestoreBackupFromArchive ==
  /\ xp.pc = "idle"
  /\ \E src \in {BackupArchive, MissingArchive}, dest \in {ServerFolder, MissingFolder}, a \in Archives :
       xp' = [NoExtraction EXCEPT !.pc = "stat_file", !.routine = "restore", !.src = src,
                                   !.dest = dest, !.archive = a, !.before = tree]
  /\ UNCHANGED <<tree, schedVars, execVars, lockVars, validated>>

\* Step 1: the backup file exists
StatBackupFile ==
  /\ xp.pc = "stat_file"
  /\ xp' = IF IsNotExist(tree, xp.src) THEN XDone(xp, "not found") ELSE [xp EXCEPT !.pc = "stat_dir"]
  /\ UNCHANGED <<tree, schedVars, execVars, lockVars, validated>>

\* Step 2: the server folder exists
StatServerFolder ==
  /\ xp.pc = "stat_dir"
  /\ xp' = IF IsNotExist(tree, xp.dest) THEN XDone(xp, "not found") ELSE [xp EXCEPT !.pc = "readdir"]
  /\ UNCHANGED <<tree, schedVars, execVars, lockVars, validated>>

\* clearDirectory: the directory is read
ClearReadDir ==
  /\ xp.pc = "readdir"
  /\ \E ok \in BOOLEAN :
       xp' = IF ok THEN [xp EXCEPT !.pc = "clear", !.pending = ReadDir(tree, xp.dest)] ELSE XDone(xp, "io")
  /\ UNCHANGED <<tree, schedVars, execVars, lockVars, validated>>

\* clearDirectory: one entry is removed, or the loop ends
ClearEntry ==
  /\ xp.pc = "clear"
  /\ IF xp.pending = {}
       THEN xp' = [xp EXCEPT !.pc = "open"] /\ UNCHANGED tree
       ELSE \E ok \in BOOLEAN :
              IF ok
                THEN /\ tree' = RemoveAll(tree, FirstEntry(xp.pending))
                     /\ xp' = [xp EXCEPT !.pending = @ \ {FirstEntry(xp.pending)}]
                ELSE xp' = XDone(xp, "io") /\ UNCHANGED tree
  /\ UNCHANGED <<schedVars, execVars, lockVars, validated>>

\* handlers.UnarchiveFile: the archive must exist, its suffix picks the routine
UnarchiveFile ==
  /\ xp.pc = "idle"
  /\ \E routine \in FileManagerRoutines, a \in Archives :
       IF IsNotExist(tree, UploadedArchive)
         THEN UNCHANGED xp
         ELSE xp' = [NoExtraction EXCEPT !.pc = "open", !.routine = routine, !.src = UploadedArchive,
                                         !.dest = ServerFolder, !.archive = a, !.before = tree]
  /\ UNCHANGED <<tree, schedVars, execVars, lockVars, validated>>

\* the archive is opened and its reader created
OpenArchive ==
  /\ xp.pc = "open"
  /\ \E ok \in BOOLEAN :
       xp' = IF ok /\ FileNode(xp.src) \in tree THEN [xp EXCEPT !.pc = "extract", !.i = 1] ELSE XDone(xp, "io")
  /\ UNCHANGED <<tree, schedVars, execVars, lockVars, validated>>

\* the next header cannot be read
ReadHeaderFails ==
  /\ xp.pc = "extract"
  /\ xp.i <= Len(xp.archive)
  /\ xp' = XDone(xp, "io")
  /\ UNCHANGED <<tree, schedVars, execVars, lockVars, validated>>

\* what writing one allowed entry does to the file system: every way it can end
WriteEntry(t, target, isDir) ==
  IF isDir
    THEN {MkdirAll(t, target)}
    ELSE LET parent == MkdirAll(t, Dir(target))
             created == Create(parent.tree, target)
         IN IF parent.err THEN {parent}
            ELSE IF created.err THEN {created}
            ELSE {created, [err |-> TRUE, tree |-> created.tree]}

\* one round of the extraction loop
ExtractEntry ==
  /\ xp.pc = "extract"
  /\ IF xp.i > Len(xp.archive)
       THEN xp' = XDone(xp, "none") /\ UNCHANGED tree
       ELSE LET entry == xp.archive[xp.i]
                target == filepathJoin(xp.dest, entry.name)
            IN IF ~EntryAllowed(xp.routine, target, xp.dest)
                 THEN /\ xp' = IF xp.routine = "restore" THEN XDone(xp, "invalid path") ELSE [xp EXCEPT !.i = @ + 1]
                      /\ UNCHANGED tree
                 ELSE \E w \in WriteEntry(tree, target, entry.isDir) :
                        /\ tree' = w.tree
                        /\ xp' = IF w.err THEN XDone(xp, "io") ELSE [xp EXCEPT !.i = @ + 1]
  /\ UNCHANGED <<schedVars, execVars, lockVars, validated>>

\* the routine returns to its handler
ExtractionReturns ==
  /\ xp.pc = "done"
  /\ xp' = NoExtraction
  /\ UNCHANGED <<tree, schedVars, execVars, lockVars, validated>>

(***************************************************************************)
(* Concurrent callers of the ScheduleService: every HTTP request runs in a *)
(* goroutine of its own.  One action is one access to the lock, the map,   *)
(* the engine or persistence.                                              *)
(***************************************************************************)
Callers == {"c1", "c2"}

NoHolder == "none"

NoServiceCall ==
  [pc |-> "idle", op |-> "none", id |-> 0, schedule |-> NoSchedule,
   part |-> "none",        \* the service function the caller is in
   todo |-> <<>>,          \* the service functions it has still to call
   list |-> <<>>,          \* LoadAllSchedules: the schedules still to add
   entryID |-> 0,          \* the entry ID read from the map or returned by AddFunc
   err |-> FALSE,
   deleted |-> FALSE,      \* history: the request has deleted its record
   inflight |-> {}]        \* history: the executions running when it last unlocked

\* faulty variant: Lock never waits
CanLock_always(holder) == TRUE

\* s.mu.Lock() returns when no other goroutine holds the lock
CanLock(holder) == holder = NoHolder

\* faulty variant: the deferred Unlock is missing
ReleaseLock_never(holder) == holder

\* defer s.mu.Unlock()
ReleaseLock(holder) == NoHolder

\* faulty variant: the engine entry is left in place
cronRemove_entryKept(es, entryID) == es

\* s.cron.Remove(entryID)
cronRemove(es, entryID) == {e \in es : e.ID # entryID}

\* faulty variant: the record is deleted before the engine entry is removed
DeleteScheduleOrder_recordFirst == <<"delete", "remove">>

\* handlers.DeleteSchedule: RemoveSchedule, then schedule.Delete()
DeleteScheduleOrder == <<"remove", "delete">>

\* the executions that have started and not yet returned
InFlight == {p \in Procs : proc[p].pc \notin {"idle", "done"}}

\* the schedule of a table of actions; a stop_server schedule is disabled
ExecSchedule(table, id) ==
  [ID |-> id, ServerID |-> ServerID, Name |-> "nightly",
   CronMinute |-> Star, CronHour |-> Star, CronDayOfMonth |-> Star,
   CronMonth |-> Star, CronDayOfWeek |-> Star,
   Enabled |-> table[id] # "stop_server",
   Action |-> table[id], Command |-> "say hi"]

\* the schedules of the panel: a console command, and a disabled stop
ServiceTable == <<"send_command", "stop_server">>

\* the schedule values the handlers pass to the service
ServiceInputs ==
  {[ExecSchedule(ServiceTable, id) EXCEPT !.Enabled = en] : id \in DOMAIN ServiceTable, en \in BOOLEAN}
    \cup {[ExecSchedule(ServiceTable, 2) EXCEPT !.Enabled = TRUE, !.CronMinute = <<"1", ",", " ", "5">>]}

\* the AddFunc calls a caller may still make
PendingAdds(l) ==
  (IF \/ l.part = "add" /\ l.pc \in {"lock", "add_check", "add_cron"}
      \/ l.part = "load" /\ l.pc \in {"add_check", "add_cron"}
     THEN 1 ELSE 0)
    + Len(l.list)
    + Cardinality({i \in DOMAIN l.todo : l.todo[i] = "add"})
    + (IF l.pc = "load_read" THEN Cardinality({id \in DOMAIN dbSchedules : dbSchedules[id].Enabled}) ELSE 0)

RECURSIVE SumPending(_)
SumPending(cs) ==
  IF cs = {} THEN 0
  ELSE LET c == CHOOSE x \in cs : TRUE IN PendingAdds(call[c]) + SumPending(cs \ {c})

\* the bound on entry IDs leaves room for the AddFunc calls of a new call
RoomForEntries(n) == nextEntryID + SumPending(Callers) + n <= MaxEntryID

\* the caller goes on to the next service function of its request, or returns
Proceed(l) ==
  IF l.todo = <<>> THEN [l EXCEPT !.pc = "done", !.part = "none"]
  ELSE [l EXCEPT !.pc = IF Head(l.todo) = "delete" THEN "del_delete" ELSE "lock",
                 !.part = Head(l.todo), !.todo = Tail(l.todo)]

SetCall(c, l) == call' = [call EXCEPT ![c] = l]

\* the function returns: the deferred Unlock runs
Leave(c, l) ==
  /\ mu' = ReleaseLock(mu)
  /\ SetCall(c, Proceed([l EXCEPT !.inflight = InFlight]))

\* AddSchedule(schedule): a disabled schedule returns before the lock
BeginAddSchedule(c) ==
  /\ call[c].pc = "idle"
  /\ RoomForEntries(1)
  /\ \E s \in ServiceInputs :
       SetCall(c, IF ~s.Enabled
                    THEN [NoServiceCall EXCEPT !.pc = "done", !.op = "AddSchedule", !.id = s.ID, !.schedule = s]
                    ELSE Proceed([NoServiceCall EXCEPT !.op = "AddSchedule", !.id = s.ID, !.schedule = s,
                                                       !.todo = <<"add">>]))
  /\ UNCHANGED <<mu, schedVars, execVars, archVars, validated>>

BeginRemoveSchedule(c) ==
  /\ call[c].pc = "idle"
  /\ \E id \in DOMAIN ServiceTable :
       SetCall(c, Proceed([NoServiceCall EXCEPT !.op = "RemoveSchedule", !.id = id, !.todo = <<"remove">>]))
  /\ UNCHANGED <<mu, schedVars, execVars, archVars, validated>>

\* UpdateSchedule(schedule): RemoveSchedule, then AddSchedule if enabled
BeginUpdateSchedule(c) ==
  /\ call[c].pc = "idle"
  /\ RoomForEntries(1)
  /\ \E s \in ServiceInputs :
       SetCall(c, Proceed([NoServiceCall EXCEPT !.op = "UpdateSchedule", !.id = s.ID, !.schedule = s,
                             !.todo = IF s.Enabled THEN <<"remove", "add">> ELSE <<"remove">>]))
  /\ UNCHANGED <<mu, schedVars, execVars, archVars, validated>>

BeginLoadAllSchedules(c) ==
  /\ call[c].pc = "idle"
  /\ RoomForEntries(Cardinality({id \in DOMAIN dbSchedules : dbSchedules[id].Enabled}))
  /\ SetCall(c, [NoServiceCall EXCEPT !.pc = "load_read", !.op = "LoadAllSchedules"])
  /\ UNCHANGED <<mu, schedVars, execVars, archVars, validated>>

\* LoadAllSchedules: models.GetAllEnabledSchedules, before the lock
LoadRead(c) ==
  /\ call[c].pc = "load_read"
  /\ \E readOk \in BOOLEAN :
       SetCall(c, IF readOk
                    THEN [call[c] EXCEPT !.pc = "lock", !.part = "load",
                                         !.list = GetAllEnabledSchedules(dbSchedules)]
                    ELSE [call[c] EXCEPT !.pc = "done", !.err = TRUE])
  /\ UNCHANGED <<mu, schedVars, execVars, archVars, validated>>

\* handlers.DeleteSchedule: models.GetScheduleByID answers 404 for no record
BeginDeleteSchedule(c) ==
  /\ call[c].pc = "idle"
  /\ \E id \in DOMAIN ServiceTable :
       SetCall(c, IF id \notin DOMAIN dbSchedules
                    THEN [NoServiceCall EXCEPT !.pc = "done", !.op = "DeleteSchedule", !.id = id, !.err = TRUE]
                    ELSE Proceed([NoServiceCall EXCEPT !.op = "DeleteSchedule", !.id = id,
                                                       !.schedule = dbSchedules[id],
                                                       !.todo = DeleteScheduleOrder]))
  /\ UNCHANGED <<mu, schedVars, execVars, archVars, validated>>

\* schedule.Delete(): an error answers 500 and ends the request
DeleteRecord(c) ==
  /\ call[c].pc = "del_delete"
  /\ \E ok \in BOOLEAN :
       IF ok
         THEN /\ dbSchedules' = MapRemove(dbSchedules, call[c].id)
              /\ SetCall(c, Proceed([call[c] EXCEPT !.deleted = TRUE]))
         ELSE /\ SetCall(c, [call[c] EXCEPT !.pc = "done", !.part = "none", !.todo = <<>>, !.err = TRUE])
              /\ UNCHANGED dbSchedules
  /\ UNCHANGED <<nextScheduleID, schedules, entries, nextEntryID, loaded, lastCall>>
  /\ UNCHANGED <<mu, execVars, archVars, validated>>

\* s.mu.Lock()
AcquireLock(c) ==
  /\ call[c].pc = "lock"
  /\ CanLock(mu)
  /\ mu' = c
  /\ SetCall(c, [call[c] EXCEPT !.pc = CASE call[c].part = "remove" -> "rm_read"
                                          [] call[c].part = "add" -> "add_check"
                                          [] call[c].part = "load" -> "load_next"])
  /\ UNCHANGED <<schedVars, execVars, archVars, validated>>

\* LoadAllSchedules: the loop takes its next schedule, or ends
LoadNext(c) ==
  /\ call[c].pc = "load_next"
  /\ IF call[c].list = <<>>
       THEN Leave(c, call[c])
       ELSE /\ SetCall(c, [call[c] EXCEPT !.pc = "add_check", !.schedule = Head(call[c].list),
                                          !.id = Head(call[c].list).ID, !.list = Tail(call[c].list)])
            /\ UNCHANGED mu
  /\ UNCHANGED <<schedVars, execVars, archVars, validated>>

\* addScheduleInternal returns: to the loop of LoadAllSchedules, which only
\* logs the error, or out of AddSchedule
AfterAdd(c, l, err) ==
  IF l.part = "load"
    THEN SetCall(c, [l EXCEPT !.pc = "load_next"]) /\ UNCHANGED mu
    ELSE Leave(c, [l EXCEPT !.err = err])

\* addScheduleInternal: the schedule is already in the map
AddCheckExists(c) ==
  /\ call[c].pc = "add_check"
  /\ IF call[c].id \in DOMAIN schedules
       THEN AfterAdd(c, call[c], TRUE)
       ELSE SetCall(c, [call[c] EXCEPT !.pc = "add_cron"]) /\ UNCHANGED mu
  /\ UNCHANGED <<schedVars, execVars, archVars, validated>>

\* addScheduleInternal: s.cron.AddFunc
AddCronFunc(c) ==
  /\ call[c].pc = "add_cron"
  /\ IF CronAddFuncOk(GetCronExpression(call[c].schedule))
       THEN /\ entries' = entries \cup {[ID |-> nextEntryID + 1, schedule |-> call[c].schedule]}
            /\ nextEntryID' = nextEntryID + 1
            /\ SetCall(c, [call[c] EXCEPT !.pc = "add_store", !.entryID = nextEntryID + 1])
            /\ UNCHANGED mu
       ELSE /\ AfterAdd(c, call[c], TRUE)
            /\ UNCHANGED <<entries, nextEntryID>>
  /\ UNCHANGED <<dbSchedules, nextScheduleID, schedules, loaded, lastCall>>
  /\ UNCHANGED <<execVars, archVars, validated>>

\* addScheduleInternal: s.schedules[schedule.ID] = entryID
AddStore(c) ==
  /\ call[c].pc = "add_store"
  /\ schedules' = MapPut(schedules, call[c].id, call[c].entryID)
  /\ AfterAdd(c, call[c], FALSE)
  /\ UNCHANGED <<dbSchedules, nextScheduleID, entries, nextEntryID, loaded, lastCall>>
  /\ UNCHANGED <<execVars, archVars, validated>>

\* RemoveSchedule: entryID, exists := s.schedules[scheduleID]
RemoveRead(c) ==
  /\ call[c].pc = "rm_read"
  /\ IF call[c].id \notin DOMAIN schedules
       THEN Leave(c, call[c])
       ELSE SetCall(c, [call[c] EXCEPT !.pc = "rm_cron", !.entryID = schedules[call[c].id]]) /\ UNCHANGED mu
  /\ UNCHANGED <<schedVars, execVars, archVars, validated>>

\* RemoveSchedule: s.cron.Remove(entryID)
RemoveCronEntry(c) ==
  /\ call[c].pc = "rm_cron"
  /\ entries' = cronRemove(entries, call[c].entryID)
  /\ SetCall(c, [call[c] EXCEPT !.pc = "rm_delete"])
  /\ UNCHANGED <<dbSchedules, nextScheduleID, schedules, nextEntryID, loaded, lastCall>>
  /\ UNCHANGED <<mu, execVars, archVars, validated>>

\* RemoveSchedule: delete(s.schedules, scheduleID)
RemoveDelete(c) ==
  /\ call[c].pc = "rm_delete"
  /\ schedules' = MapRemove(schedules, call[c].id)
  /\ Leave(c, call[c])
  /\ UNCHANGED <<dbSchedules, nextScheduleID, entries, nextEntryID, loaded, lastCall>>
  /\ UNCHANGED <<execVars, archVars, validated>>

\* the call or request has returned to its caller
ServiceCallReturns(c) ==
  /\ call[c].pc = "done"
  /\ SetCall(c, NoServiceCall)
  /\ UNCHANGED <<mu, schedVars, execVars, archVars, validated>>

\* the program positions at which a caller holds s.mu
LockedPCs == {"load_next", "add_check", "add_cron", "add_store", "rm_read", "rm_cron", "rm_delete"}

\* the steps of AddSchedule, RemoveSchedule and UpdateSchedule
LockStep(c) ==
  \/ AcquireLock(c)
  \/ AddCheckExists(c)
  \/ AddCronFunc(c)
  \/ AddStore(c)
  \/ RemoveRead(c)
  \/ RemoveCronEntry(c)
  \/ RemoveDelete(c)
  \/ ServiceCallReturns(c)

\* the steps of a caller inside or between service functions
ServiceStep(c) ==
  \/ LockStep(c)
  \/ LoadRead(c)
  \/ LoadNext(c)
  \/ DeleteRecord(c)

(***************************************************************************)
(* Initial states and specifications                                       *)
(***************************************************************************)
\* another server of the panel holds one old backup of its own
OtherBackup == [ID |-> 1, ServerID |-> OtherServerID, CreatedAt |-> 0, FilePath |-> 0]

InitExecIdle ==
  /\ running = FALSE
  /\ backups = {OtherBackup}
  /\ nextBackupID = 2
  /\ files = {0}
  /\ now = 0
  /\ proc = [p \in Procs |-> Idle]
  /\ overlapped = FALSE
  /\ tree = InitTree
  /\ xp = NoExtraction
  /\ mu = NoHolder
  /\ call = [c \in Callers |-> NoServiceCall]
  /\ validated = NoValidation

\* a first start on an empty database; the server has no backup settings yet
Init ==
  /\ dbSchedules = <<>>
  /\ nextScheduleID = 1
  /\ schedules = <<>>
  /\ entries = {}
  /\ nextEntryID = 0
  /\ loaded = FALSE
  /\ lastCall = NoCall
  /\ backupPath = FALSE
  /\ maxBackups = 1
  /\ InitExecIdle

\* the schedule requests, one at a time, across restarts
Next ==
  \/ StartupLoadAll
  \/ Restart
  \/ HandleCreateSchedule
  \/ HandleUpdateSchedule
  \/ HandleToggleSchedule
  \/ HandleDeleteSchedule

Spec == Init /\ [][Next]_vars

\* the service called directly
NextCore ==
  \/ StartupLoadAll
  \/ CallAddSchedule
  \/ CallRemoveSchedule
  \/ CallUpdateSchedule

SpecCore == Init /\ [][NextCore]_vars

\* a process start on any database the requests can leave behind: each
\* schedule ID absent or holding a validated record
InitLoad ==
  /\ \E ids \in SUBSET SchedIDs :
       dbSchedules \in {db \in [ids -> ScheduleValues] : \A id \in ids : db[id].ID = id}
  /\ nextScheduleID = MaxScheduleID + 1
  /\ schedules = <<>>
  /\ entries = {}
  /\ nextEntryID = 0
  /\ loaded = FALSE
  /\ lastCall = NoCall
  /\ backupPath = FALSE
  /\ maxBackups = 1
  /\ InitExecIdle

NextLoad ==
  \/ StartupLoadAll
  \/ Restart

SpecLoad == InitLoad /\ [][NextLoad]_vars

\* a running panel: one schedule per action, loaded at start; the stop
\* schedule is disabled.  The server with or without backup settings.
ExecTable ==
  <<"send_command", "start_server", "restart_server", "stop_server", "backup">>

\* a panel whose only schedule is the nightly backup
BackupTable == <<"backup">>

InitTable(table) ==
  /\ dbSchedules = [id \in DOMAIN table |-> ExecSchedule(table, id)]
  /\ LET cs == LoadAllSchedules(EmptyCore, [id \in DOMAIN table |-> ExecSchedule(table, id)], TRUE).cs
     IN /\ schedules = cs.schedules
        /\ entries = cs.entries
        /\ nextEntryID = cs.nextID
  /\ nextScheduleID = Len(table) + 1
  /\ loaded = TRUE
  /\ lastCall = NoCall
  /\ \E path \in BOOLEAN, max \in 1..MaxConfigured :
       /\ backupPath = path
       /\ maxBackups = max
       /\ ~path => max = 1
  /\ InitExecIdle

InitExec == InitTable(ExecTable)

InitBackups == InitTable(BackupTable)

BackupStep(p) ==
  \/ executeSchedule(p)
  \/ RotateCount(p)
  \/ RotateOldest(p)
  \/ RotateRemoveFile(p)
  \/ RotateDelete(p)
  \/ CreateTarGzBackup(p)
  \/ CreateBackup(p)
  \/ CleanupFile(p)
  \/ Return(p)

ExecStep(p) ==
  \/ BackupStep(p)
  \/ CheckGuard(p)
  \/ InvokeSupervisor(p)

\* firings, manual runs and backup requests with no two executions in
\* progress at once
Quiet == \A q \in Procs : proc[q].pc = "idle"

NextOneAtATime ==
  \/ \E p \in Procs : Quiet /\ Fire(p)
  \/ \E p \in Procs : Quiet /\ ExecuteScheduleManually(p)
  \/ \E p \in Procs : Quiet /\ HandleCreateBackup(p)
  \/ \E p \in Procs : ExecStep(p)
  \/ SupervisorEvent

SpecOneAtATime == InitExec /\ [][NextOneAtATime]_vars

\* backups of every kind one at a time, with the backup settings changed
\* between them
NextSettings ==
  \/ \E p \in Procs : Quiet /\ Fire(p)
  \/ \E p \in Procs : Quiet /\ ExecuteScheduleManually(p)
  \/ \E p \in Procs : Quiet /\ HandleCreateBackup(p)
  \/ \E p \in Procs : BackupStep(p)
  \/ Quiet /\ HandleUpdateBackupSettings

SpecSettings == InitBackups /\ [][NextSettings]_vars

\* backup firings and backup requests, each in its own goroutine, interleaved
NextBackups ==
  \/ \E p \in Procs : Fire(p)
  \/ \E p \in Procs : HandleCreateBackup(p)
  \/ \E p \in Procs : BackupStep(p)

SpecBackups == InitBackups /\ [][NextBackups]_vars
(***************************************************************************)
(* Properties of the schedule registry                                     *)
(***************************************************************************)
\* C1: whenever no request is in progress (after the startup load and after
\* any sequence of create, update, toggle and delete requests), a persisted
\* schedule has exactly one live engine entry if its enabled flag is true
\* and none if it is false.
C1_EnabledIffOneLiveEntry ==
  loaded =>
    \A id \in DOMAIN dbSchedules :
      Cardinality({e \in entries : e.schedule.ID = id})
        = IF dbSchedules[id].Enabled THEN 1 ELSE 0

\* C2: AddSchedule with an enabled schedule whose ID is already registered
\* returns an error and leaves the schedule map and the live entries as they
\* were.
C2_DuplicateAddFails ==
  [][(lastCall'.op = "AddSchedule" /\ lastCall'.enabled /\ lastCall'.registered)
       => /\ lastCall'.err
          /\ schedules' = schedules
          /\ entries' = entries]_vars

\* a second AddSchedule of a registered ID has failed, its first entry alive
C2_Witness ==
  /\ lastCall.op = "AddSchedule"
  /\ lastCall.enabled
  /\ lastCall.registered
  /\ lastCall.err
  /\ Cardinality({e \in entries : e.schedule.ID = lastCall.id}) = 1
  /\ \E e \in entries : e.ID = schedules[lastCall.id]

\* C3: RemoveSchedule of an ID that is not registered returns no error and
\* changes nothing, and a second RemoveSchedule of the same ID leaves the
\* state the first one left.
C3_RemoveAbsentIsNoOp ==
  [][/\ (lastCall'.op = "RemoveSchedule" /\ ~lastCall'.registered)
          => /\ ~lastCall'.err
             /\ schedules' = schedules
             /\ entries' = entries
             /\ nextEntryID' = nextEntryID
     /\ \A id \in SchedIDs :
          /\ RemoveSchedule(RemoveSchedule(Core, id).cs, id).cs = RemoveSchedule(Core, id).cs
          /\ ~RemoveSchedule(RemoveSchedule(Core, id).cs, id).err]_vars

\* an unregistered ID has been removed without error while another schedule
\* stays registered
C3_Witness ==
  /\ lastCall.op = "RemoveSchedule"
  /\ ~lastCall.registered
  /\ ~lastCall.err
  /\ schedules # <<>>
  /\ lastCall.id \notin DOMAIN schedules

\* C4: after UpdateSchedule(schedule) the schedule is registered if and only
\* if its new enabled flag is true, whether it was registered before or not;
\* when registered it has exactly one engine entry, created from the new
\* values.
C4_UpdateRegistersIffEnabled ==
  lastCall.op = "UpdateSchedule" =>
    /\ lastCall.id \in DOMAIN schedules <=> lastCall.enabled
    /\ lastCall.id \in DOMAIN schedules =>
         {e \in entries : e.schedule.ID = lastCall.id}
           = {[ID |-> schedules[lastCall.id], schedule |-> lastCall.schedule]}
(***************************************************************************)
(* Properties of the executions                                            *)
(***************************************************************************)
\* C5: a manual run dispatches the schedule whether it is enabled or not (it
\* is skipped only as a scheduled firing would be: a backup without a backup
\* path, a guard that does not hold), and no step of a manual run changes
\* the schedule map or the engine's entries.
C5_ManualRunDispatchesAndKeepsRegistry ==
  [][\A p \in Procs :
       (proc'[p] # proc[p] /\ (proc[p].kind = "manual" \/ proc'[p].kind = "manual"))
         => /\ schedules' = schedules
            /\ entries' = entries
            /\ nextEntryID' = nextEntryID
            /\ (proc[p].pc = "idle" /\ loaded) => proc'[p].pc = "exec"
            /\ (proc[p].pc = "exec" /\ proc'[p].result = "skipped")
                 => (proc[p].schedule.Action = "backup" /\ ~backupPath)
            /\ proc[p].pc = "exec"
                 => proc'[p].pc \in {"guard", "rotate_count", "done"}]_vars

\* a manual run of a disabled, unregistered schedule has called the supervisor
C5_Witness ==
  \E p \in Procs :
    /\ proc[p].kind = "manual"
    /\ proc[p].pc = "done"
    /\ ~proc[p].schedule.Enabled
    /\ proc[p].schedule.ID \notin DOMAIN schedules
    /\ \A e \in entries : e.schedule.ID # proc[p].schedule.ID
    /\ proc[p].invoked = "StopServer"

\* C6: a firing, scheduled or manual, calls a supervisor operation only after
\* IsServerRunning answered in that firing what the action's guard asks for
\* (running for SendCommand, RestartServer and StopServer, not running for
\* StartServer); a firing whose guard does not hold, whose server is not
\* found or whose action is unknown calls none, and no such firing touches
\* the backups.  (Both validators reject an action outside the five, so the
\* dispatcher's default branch is checked on the rejected action values.)
C6_SupervisorOnlyUnderGuard ==
  [][/\ \A p \in Procs :
          proc'[p] # proc[p]
            => /\ proc'[p].invoked # "none"
                    => /\ proc[p].pc = "invoke"
                       /\ proc'[p].invoked = SupervisorOp(proc[p].schedule.Action)
                       /\ proc'[p].sawRunning
                            = IF proc'[p].invoked = "StartServer" THEN "no" ELSE "yes"
               /\ running' # running => proc'[p].invoked # "none"
               /\ proc'[p].result \in {"skipped", "no_server", "unknown_action"}
                    => /\ proc'[p].pc = "done"
                       /\ proc'[p].invoked = "none"
                       /\ proc'[p].did = <<>>
                       /\ running' = running
               /\ proc[p].pc \in {"exec", "guard", "invoke"}
                    => (backups' = backups /\ files' = files /\ nextBackupID' = nextBackupID)
     /\ (running' # running /\ proc' # proc)
          => \E p \in Procs : proc[p].pc = "invoke" /\ proc'[p] # proc[p]
     /\ \A a \in ActionInputs \ validActions :
          LET l == Dispatch([Idle EXCEPT !.pc = "exec", !.kind = "manual",
                                         !.schedule = [NoSchedule EXCEPT !.Action = a]])
          IN l.pc = "done" /\ l.result = "unknown_action" /\ l.invoked = "none"]_vars

\* a scheduled start_server firing saw the server stopped and called
\* StartServer
C6_Witness ==
  \E p \in Procs :
    /\ proc[p].pc = "done"
    /\ proc[p].kind = "fired"
    /\ proc[p].schedule.Action = "start_server"
    /\ proc[p].invoked = "StartServer"
    /\ proc[p].sawRunning = "no"

\* C7: a backup run for a server without a backup path never enters the
\* backup steps and changes neither records nor files; otherwise the run
\* rotates (records and files only shrink), then creates the archive (a file
\* appears), then inserts the record, in that order, and a step that fails
\* ends the run before any later step.
C7_BackupStepsInOrder ==
  [][/\ \A p \in Procs :
          proc'[p] # proc[p]
            => /\ proc[p].pc \notin BackupPCs
                    => /\ backups' = backups
                       /\ files' = files
                       /\ proc'[p].pc \in BackupPCs
                            => (backupPath /\ proc'[p].pc = "rotate_count" /\ proc'[p].did = <<>>)
               /\ proc[p].pc \in {"rotate_count", "rotate_oldest", "rotate_remove", "rotate_delete"}
                    => /\ proc[p].did = <<>>
                       /\ backups' \subseteq backups
                       /\ files' \subseteq files
                       /\ proc'[p].pc \in {"rotate_oldest", "rotate_remove", "rotate_delete",
                                           "archive", "done"}
               /\ proc[p].pc = "archive"
                    => /\ proc[p].did = <<"rotate">>
                       /\ backups' = backups
                       /\ files \subseteq files'
                       /\ proc'[p].pc \in {"insert", "done"}
                       /\ proc'[p].pc = "insert" => proc'[p].path \in files'
               /\ proc[p].pc = "insert"
                    => /\ proc[p].did = <<"rotate", "archive">>
                       /\ files' = files
                       /\ backups \subseteq backups'
                       /\ proc'[p].pc \in {"cleanup", "done"}
                       /\ backups' # backups => proc'[p].result = "ok"
               /\ proc[p].pc = "cleanup" => (backups' = backups /\ proc'[p].pc = "done")
               /\ proc'[p].result = "error"
                    => (proc'[p].pc = "done" /\ proc'[p].did = proc[p].did)
               /\ proc[p].pc = "done" => proc'[p].pc = "idle"
     /\ (backups' # backups \/ files' # files) => proc' # proc]_vars

\* a scheduled backup has evicted the oldest backup, written the archive and
\* inserted the record
C7_Witness ==
  \E p \in Procs :
    /\ proc[p].kind = "fired"
    /\ proc[p].schedule.Action = "backup"
    /\ proc[p].pc = "done"
    /\ proc[p].result = "ok"
    /\ proc[p].did = <<"rotate", "archive", "insert">>
    /\ proc[p].oldest # NoBackup
    /\ proc[p].oldest \notin backups

\* C8: with backup operations run one at a time, max >= 1 and a server that
\* starts with at most max backups, the server has at most max Backup
\* records whenever a backup operation has completed.
C8_AtMostMaxAfterCreate ==
  (\A p \in Procs : proc[p].pc \in {"idle", "done"})
    => Cardinality(BackupsOf(backups, ServerID)) <= maxBackups

\* a backup created on a full server has completed and the server is full
C8_Witness ==
  \E p \in Procs :
    /\ proc[p].pc = "done"
    /\ proc[p].result = "ok"
    /\ proc[p].count = maxBackups
    /\ maxBackups >= 1
    /\ Cardinality(BackupsOf(backups, ServerID)) = maxBackups

\* C9: two backup operations of one server that run at once can both read
\* the count before either inserts, both skip the eviction and both insert,
\* which leaves more than max records; only such an overlap gets there.
C9_ExceedsOnlyWhenOverlapped ==
  Cardinality(BackupsOf(backups, ServerID)) > maxBackups => overlapped

\* a scheduled firing and a request read the same count, evicted nothing and
\* both inserted: the server holds more than max backups
C9_Witness ==
  \E p, q \in Procs :
    /\ proc[p].kind = "fired"
    /\ proc[q].kind = "http"
    /\ proc[p].pc = "done" /\ proc[p].result = "ok"
    /\ proc[q].pc = "done" /\ proc[q].result = "ok"
    /\ proc[p].count = proc[q].count
    /\ proc[p].oldest = NoBackup /\ proc[q].oldest = NoBackup
    /\ Cardinality(BackupsOf(backups, ServerID)) > maxBackups

\* C10: a rotation, run alone, deletes no record while the server holds
\* fewer than max backups; a rotation that returns without error on a server
\* holding max or more deletes exactly one record, one of that server with
\* the earliest creation time.  A backup created after such a rotation on a
\* server that held exactly max leaves exactly max, none older than the one
\* evicted.
C10_RotationEvictsOldest ==
  [][\A p \in Procs :
       proc'[p] # proc[p]
         => /\ (proc[p].pc \in {"rotate_count", "rotate_oldest", "rotate_remove", "rotate_delete"}
                  /\ Cardinality(BackupsOf(backups, ServerID)) < maxBackups)
                 => (backups' = backups /\ proc'[p].pc \in {"archive", "done"})
            /\ (proc[p].pc \in {"rotate_count", "rotate_oldest", "rotate_remove", "rotate_delete"}
                  /\ proc'[p].pc = "archive"
                  /\ Cardinality(BackupsOf(backups, ServerID)) >= maxBackups)
                 => \E b \in BackupsOf(backups, ServerID) :
                      /\ backups' = backups \ {b}
                      /\ \A c \in BackupsOf(backups, ServerID) : b.CreatedAt <= c.CreatedAt
            /\ (proc[p].pc \in {"rotate_count", "rotate_oldest", "rotate_remove", "rotate_delete"}
                  /\ proc'[p].pc # "archive")
                 => backups' = backups
            /\ (proc[p].pc = "insert" /\ proc'[p].result = "ok" /\ proc[p].count = maxBackups)
                 => /\ Cardinality(BackupsOf(backups', ServerID)) = maxBackups
                    /\ proc[p].oldest \notin backups'
                    /\ \A c \in BackupsOf(backups', ServerID) :
                         proc[p].oldest.CreatedAt <= c.CreatedAt]_vars

\* the third backup of a server limited to two has completed: the first is
\* gone, the second and the third remain
C10_Witness ==
  \E p \in Procs :
    /\ proc[p].pc = "done"
    /\ proc[p].result = "ok"
    /\ maxBackups = 2
    /\ proc[p].count = 2
    /\ proc[p].oldest.ServerID = ServerID
    /\ proc[p].oldest \notin backups
    /\ Cardinality(BackupsOf(backups, ServerID)) = 2
\* C11: when a server holds more Backup records than its maximum, each
\* backup created (one operation at a time) leaves it with fewer records
\* than it held before, so the excess goes one backup per creation.
C11_CreationCyclesExcessOut ==
  \A p \in Procs :
    (proc[p].pc = "done" /\ proc[p].result = "ok" /\ proc[p].count > proc[p].srvMax)
      => Cardinality(BackupsOf(backups, ServerID)) < proc[p].count

\* C12: after a backup operation whose archive was written and whose record
\* insertion failed, the archive file it wrote does not exist without a
\* Backup record.
C12_NoArchiveWithoutRecord ==
  \A p \in Procs :
    (proc[p].pc = "done" /\ proc[p].result = "error" /\ proc[p].did = <<"rotate", "archive">>)
      => \/ proc[p].path \notin files
         \/ \E b \in backups : b.FilePath = proc[p].path
\* C20: LoadAllSchedules on a fresh service registers exactly the enabled
\* persisted schedules whose expression the engine accepts, each with one
\* entry built from its record, and no disabled one; a registration that
\* fails does not stop the others and is not an error of the load; the load
\* returns an error only when the schedules cannot be read, and then it
\* registers nothing.
C20_LoadAllRegistersEnabled ==
  [][/\ lastCall'.op = "LoadAllSchedules"
          => IF lastCall'.err
               THEN schedules' = <<>> /\ entries' = {}
               ELSE /\ DOMAIN schedules'
                         = {id \in DOMAIN dbSchedules :
                              /\ dbSchedules[id].Enabled
                              /\ CronParseOk(GetCronExpression(dbSchedules[id]))}
                    /\ entries' = {[ID |-> schedules'[id], schedule |-> dbSchedules[id]] :
                                     id \in DOMAIN schedules'}
                    /\ \A id, other \in DOMAIN schedules' :
                         schedules'[id] = schedules'[other] => id = other
     /\ LoadAllSchedules(EmptyCore, dbSchedules, FALSE).err
     /\ ~LoadAllSchedules(EmptyCore, dbSchedules, TRUE).err]_vars

\* a load has returned no error although the first enabled schedule could
\* not be registered; the enabled schedule after it is registered, the
\* disabled state of none was changed
C20_Witness ==
  /\ lastCall.op = "LoadAllSchedules"
  /\ ~lastCall.err
  /\ \E first, second \in DOMAIN dbSchedules :
       /\ first < second
       /\ dbSchedules[first].Enabled
       /\ ~CronParseOk(GetCronExpression(dbSchedules[first]))
       /\ first \notin DOMAIN schedules
       /\ dbSchedules[second].Enabled
       /\ second \in DOMAIN schedules

(***************************************************************************)
(* Restore and extraction                                                  *)
(***************************************************************************)
\* restores and file-manager extractions, one at a time, on one file system
NextArchive ==
  \/ RestoreBackupFromArchive
  \/ StatBackupFile
  \/ StatServerFolder
  \/ ClearReadDir
  \/ ClearEntry
  \/ UnarchiveFile
  \/ OpenArchive
  \/ ReadHeaderFails
  \/ ExtractEntry
  \/ ExtractionReturns

SpecArchive == Init /\ [][NextArchive]_vars

C14_NothingWrittenOutsideRoot ==
  \A n \in tree \ InitTree : HasPrefix(n.path, ServerFolder \o <<"/">>)

\* C15: at an entry whose target is neither the destination root nor inside
\* it, tar and zip extraction go on to the next entry and write nothing,
\* while tar.gz extraction and the restore end with an error.
C15_EscapingEntrySkippedOrFatal ==
  [][(/\ xp.pc = "extract"
      /\ xp.i <= Len(xp.archive)
      /\ xp'.err # "io"
      /\ LET target == filepathJoin(xp.dest, xp.archive[xp.i].name)
         IN target # Clean(xp.dest) /\ ~HasPrefix(target, Clean(xp.dest) \o <<"/">>))
       => IF xp.routine \in {"tar", "zip"}
            THEN xp'.pc = "extract" /\ xp'.i = xp.i + 1 /\ tree' = tree
            ELSE xp'.pc = "done" /\ xp'.err = "invalid path" /\ tree' = tree]_vars

(***************************************************************************)
(* Concurrent service calls and firings                                    *)
(***************************************************************************)
\* a started panel with its enabled schedule registered
InitService ==
  /\ InitTable(ServiceTable)
  /\ backupPath
  /\ maxBackups = 1

\* service calls and delete requests from concurrent callers, while the
\* engine fires the live entries
NextService ==
  \/ \E c \in Callers : BeginAddSchedule(c)
  \/ \E c \in Callers : BeginRemoveSchedule(c)
  \/ \E c \in Callers : BeginUpdateSchedule(c)
  \/ \E c \in Callers : BeginLoadAllSchedules(c)
  \/ \E c \in Callers : BeginDeleteSchedule(c)
  \/ \E c \in Callers : ServiceStep(c)

SpecService == InitService /\ [][NextService]_vars

\* the execution the cron engine has in progress
Firing == "p1"

\* the steps of an execution whose action goes to the process supervisor
CommandStep(p) ==
  \/ executeSchedule(p)
  \/ CheckGuard(p)
  \/ InvokeSupervisor(p)
  \/ Return(p)

\* AddSchedule, RemoveSchedule and UpdateSchedule from concurrent callers
\* while the engine fires the live entries and the server goes up and down
NextFiring ==
  \/ \E c \in Callers : BeginAddSchedule(c)
  \/ \E c \in Callers : BeginRemoveSchedule(c)
  \/ \E c \in Callers : BeginUpdateSchedule(c)
  \/ \E c \in Callers : LockStep(c)
  \/ Fire(Firing)
  \/ CommandStep(Firing)
  \/ SupervisorEvent

SpecFiring == InitService /\ [][NextFiring]_vars

Range(f) == {f[i] : i \in DOMAIN f}

\* C16: in a delete request the record is deleted only after the request's
\* RemoveSchedule has returned, and from then on the engine entry that
\* RemoveSchedule took out of the map is not live.
C16_EngineEntryRemovedBeforeRecord ==
  [][\A c \in Callers :
       /\ (/\ call[c].pc = "del_delete"
           /\ call[c].id \in DOMAIN dbSchedules
           /\ call[c].id \notin DOMAIN dbSchedules')
            => /\ "remove" \notin Range(call[c].todo)
               /\ \A e \in entries' : e.ID # call[c].entryID
       /\ call'[c].deleted => \A e \in entries' : e.ID # call'[c].entryID]_vars

\* a delete request has removed the live entry of its schedule and then
\* deleted the record
C16_Witness ==
  \E c \in Callers :
    /\ call[c].op = "DeleteSchedule"
    /\ call[c].pc = "done"
    /\ call[c].deleted
    /\ call[c].entryID # 0
    /\ call[c].id \notin DOMAIN dbSchedules
    /\ \A e \in entries : e.ID # call[c].entryID

\* C17: whenever no caller is inside a critical section, every schedule ID
\* in the map refers to exactly one live engine entry, registered for that
\* schedule, and every live engine entry is referred to by exactly one key.
C17_MapAndEngineConsistent ==
  mu = NoHolder
    => /\ \A id \in DOMAIN schedules :
            /\ Cardinality({e \in entries : e.ID = schedules[id]}) = 1
            /\ \A e \in entries : e.ID = schedules[id] => e.schedule.ID = id
       /\ \A e \in entries : Cardinality({id \in DOMAIN schedules : schedules[id] = e.ID}) = 1

\* a RemoveSchedule ran between the two critical sections of an
\* UpdateSchedule of the same schedule, and another schedule is registered
C17_Witness ==
  /\ mu = NoHolder
  /\ entries # {}
  /\ \E c, d \in Callers :
       /\ call[c].op = "UpdateSchedule"
       /\ call[c].pc = "lock"
       /\ call[c].part = "add"
       /\ call[d].op = "RemoveSchedule"
       /\ call[d].pc = "done"
       /\ call[d].id = call[c].id

\* C18: no step of a service call changes an execution in progress; an
\* execution keeps the schedule value its entry captured and always has a
\* next step; the engine fires live entries only, and when RemoveSchedule
\* returns the entry it read from the map is not live.
C18_InFlightUnaffectedByRemove ==
  [][/\ (\E c \in Callers : call'[c] # call[c]) => proc' = proc
     /\ \A p \in Procs :
          /\ (proc[p].pc # "idle" /\ proc'[p].pc # "idle") => proc'[p].schedule = proc[p].schedule
          /\ proc[p].pc # "idle" => ENABLED ExecStep(p)
          /\ (proc[p].pc = "idle" /\ proc'[p].kind = "fired")
               => \E e \in entries : e.schedule = proc'[p].schedule
     /\ \A c \in Callers :
          (call[c].pc = "rm_delete" /\ call'[c].pc # "rm_delete")
            => \A e \in entries' : e.ID # call[c].entryID]_vars

\* a fired execution was running when the RemoveSchedule of its schedule
\* returned, and has since sent its command
C18_Witness ==
  \E c \in Callers, p \in Procs :
    /\ call[c].op = "RemoveSchedule"
    /\ call[c].pc = "done"
    /\ call[c].entryID # 0
    /\ p \in call[c].inflight
    /\ proc[p].kind = "fired"
    /\ proc[p].schedule.ID = call[c].id
    /\ proc[p].pc = "done"
    /\ proc[p].result = "ok"
    /\ call[c].id \notin DOMAIN schedules

\* C19: the lock is held only by a caller inside a critical section, which
\* always has a next step (at AddFunc by either branch of its test); a
\* caller waiting for a free lock can take it; an execution in progress
\* always has a next step, whoever holds the lock.
C19_LockNotHeldDuringExecution ==
  /\ mu # NoHolder
       => /\ mu \in Callers
          /\ call[mu].pc \in LockedPCs
          /\ call[mu].pc = "add_cron" \/ ENABLED LockStep(mu)
  /\ \A c \in Callers : call[c].pc \in LockedPCs => mu = c
  /\ mu = NoHolder => \A c \in Callers : call[c].pc = "lock" => ENABLED AcquireLock(c)
  /\ \A p \in Procs : proc[p].pc # "idle" => ENABLED ExecStep(p)

\* an UpdateSchedule has removed and registered the schedule again while a
\* fired execution of that schedule is still running
C19_Witness ==
  \E c \in Callers :
    /\ call[c].op = "UpdateSchedule"
    /\ call[c].pc = "done"
    /\ ~call[c].err
    /\ call[c].id \in DOMAIN schedules
    /\ Firing \in call[c].inflight
    /\ proc[Firing].kind = "fired"
    /\ proc[Firing].pc \notin {"idle", "done"}
    /\ proc[Firing].schedule.ID = call[c].id

(***************************************************************************)
(* Validation of schedule requests                                         *)
(***************************************************************************)
\* C21: a create or update request whose form has an empty name, a cron
\* field the validator rejects, an action outside the five allowed values,
\* or send_command with an empty command, is answered with an error and
\* leaves the records, the map and the engine as they were.
C21_InvalidInputChangesNothing ==
  [][(/\ lastCall'.op \in {"CreateSchedule", "UpdateSchedule"}
      /\ LET s == lastCall'.schedule
         IN \/ s.Name = ""
            \/ ~ValidateCronField("minute", s.CronMinute)
            \/ ~ValidateCronField("hour", s.CronHour)
            \/ ~ValidateCronField("day_of_month", s.CronDayOfMonth)
            \/ ~ValidateCronField("month", s.CronMonth)
            \/ ~ValidateCronField("day_of_week", s.CronDayOfWeek)
            \/ s.Action \notin {"send_command", "start_server", "restart_server", "stop_server", "backup"}
            \/ (s.Action = "send_command" /\ s.Command = ""))
       => /\ lastCall'.err
          /\ UNCHANGED <<dbSchedules, nextScheduleID, schedules, entries, nextEntryID>>]_vars

\* an update of a registered schedule with send_command and no command has
\* been refused; the record and its registration are as before
C21_Witness ==
  /\ lastCall.op = "UpdateSchedule"
  /\ lastCall.err
  /\ lastCall.schedule.Name # ""
  /\ lastCall.schedule.Action = "send_command"
  /\ lastCall.schedule.Command = ""
  /\ lastCall.id \in DOMAIN dbSchedules
  /\ dbSchedules[lastCall.id].Command # ""
  /\ lastCall.id \in DOMAIN schedules

(***************************************************************************)
(* The validator called directly on every short field value                *)
(***************************************************************************)
MaxFieldLen == 4        \* characters of a field value

\* the characters of the values: the cron punctuation, white space, a sign
\* and digits that reach both sides of every bound (6/7, 12/13, 23/30, 31/32,
\* 36/60)
FieldChars == {"*", "/", ",", "-", " ", "+", "0", "1", "2", "3", "6"}

FieldValues == UNION {[1..n -> FieldChars] : n \in 0..MaxFieldLen}

\* one call, its arguments and its result recorded
CallValidateCronField ==
  /\ validated = NoValidation
  /\ \E i \in DOMAIN FieldNames, value \in FieldValues :
       validated' = [fieldName |-> FieldNames[i], value |-> value,
                     ok |-> ValidateCronField(FieldNames[i], value)]
  /\ UNCHANGED <<schedVars, execVars, archVars, lockVars>>

NextValidate == CallValidateCronField

SpecValidate == Init /\ [][NextValidate]_vars

\* the forms of a field value, read off the value itself: an integer is a
\* run of decimal digits
IsInteger(s) == s # <<>> /\ \A i \in 1..Len(s) : IsDigit(s[i])

InBounds(fieldName, s) ==
  IsInteger(s) /\ FieldMin(fieldName) <= DigitsVal(s) /\ DigitsVal(s) <= FieldMax(fieldName)

IsStep(value) ==
  /\ Len(value) > 2 /\ value[1] = "*" /\ value[2] = "/"
  /\ IsInteger(SubSeq(value, 3, Len(value)))
  /\ DigitsVal(SubSeq(value, 3, Len(value))) >= 1

\* the items between the commas, the commas being at the positions cs
IsList(fieldName, value) ==
  /\ \E i \in 1..Len(value) : value[i] = ","
  /\ LET commas == {i \in 1..Len(value) : value[i] = ","}
         bounds == commas \cup {0, Len(value) + 1}
     IN \A a \in bounds, b \in bounds :
          (a < b /\ ~\E c \in bounds : a < c /\ c < b)
            => InBounds(fieldName, SubSeq(value, a + 1, b - 1))

IsRange(fieldName, value) ==
  \E i \in 2..(Len(value) - 1) :
    /\ value[i] = "-"
    /\ InBounds(fieldName, SubSeq(value, 1, i - 1))
    /\ InBounds(fieldName, SubSeq(value, i + 1, Len(value)))
    /\ DigitsVal(SubSeq(value, 1, i - 1)) < DigitsVal(SubSeq(value, i + 1, Len(value)))

ListedForm(fieldName, value) ==
  \/ value = Star
  \/ IsStep(value)
  \/ IsList(fieldName, value)
  \/ IsRange(fieldName, value)
  \/ InBounds(fieldName, value)

\* C22: ValidateCronField accepts a value exactly when it is "*", "*/n" with
\* n >= 1, a comma-separated list of integers within the bounds of the
\* field, one range a-b with a < b and both ends within the bounds, or one
\* integer within the bounds; every other value is rejected.
C22_AcceptsExactlyListedForms ==
  validated # NoValidation
    => (validated.ok <=> ListedForm(validated.fieldName, validated.value))

\* the two halves of the equivalence apart: every listed form is accepted,
\* and what is accepted beyond them has white space, a plus sign or "-0"
\* in it (strings.TrimSpace on items and range ends, the sign strconv.Atoi
\* reads)
AcceptedBeyondListed ==
  (validated.ok /\ ~ListedForm(validated.fieldName, validated.value))
    => \/ Contains(validated.value, " ")
       \/ Contains(validated.value, "+")
       \/ \E i \in 1..(Len(validated.value) - 1) :
            validated.value[i] = "-" /\ validated.value[i + 1] = "0"

AcceptsNoLessThanListed ==
  (validated # NoValidation /\ ListedForm(validated.fieldName, validated.value))
    => validated.ok

\* C23: the expression of every stored schedule, whose five values the
\* validator accepted, splits at its blanks into exactly the five stored
\* values in the order minute, hour, day of month, month, day of week.
C23_ExpressionHasFiveStoredFields ==
  \A id \in DOMAIN dbSchedules :
    LET s == dbSchedules[id] IN
    (/\ ValidateCronField("minute", s.CronMinute)
     /\ ValidateCronField("hour", s.CronHour)
     /\ ValidateCronField("day_of_month", s.CronDayOfMonth)
     /\ ValidateCronField("month", s.CronMonth)
     /\ ValidateCronField("day_of_week", s.CronDayOfWeek))
      => Split(GetCronExpression(s), " ")
           = <<s.CronMinute, s.CronHour, s.CronDayOfMonth, s.CronMonth, s.CronDayOfWeek>>

(***************************************************************************)
(* Restore requests next to the scheduler and the supervisor               *)
(***************************************************************************)
\* handlers.RestoreBackup: refused while server.Status is "online" and when
\* the backup file is not on disk, else RestoreBackupFromArchive
HandleRestoreBackup ==
  /\ xp.pc = "idle"
  /\ \E src \in {BackupArchive, MissingArchive}, a \in Archives :
       LET x == [NoExtraction EXCEPT !.routine = "restore", !.src = src, !.dest = ServerFolder,
                                     !.archive = a, !.before = tree]
       IN xp' = IF IsServerRunning(running) THEN XDone(x, "server running")
                ELSE IF IsNotExist(tree, src) THEN XDone(x, "not found")
                ELSE [x EXCEPT !.pc = "stat_file"]
  /\ UNCHANGED <<tree, schedVars, execVars, lockVars, validated>>

RestoreStep ==
  \/ StatBackupFile
  \/ StatServerFolder
  \/ ClearReadDir
  \/ ClearEntry
  \/ OpenArchive
  \/ ReadHeaderFails
  \/ ExtractEntry
  \/ ExtractionReturns

\* the one schedule of the panel starts the server
RestoreTable == <<"start_server">>

InitRestore ==
  /\ InitTable(RestoreTable)
  /\ backupPath
  /\ maxBackups = 1

\* restore requests while the engine fires the start_server schedule and
\* the console page starts and stops the server
NextRestore ==
  \/ HandleRestoreBackup
  \/ RestoreStep
  \/ Fire(Firing)
  \/ CommandStep(Firing)
  \/ SupervisorEvent

SpecRestore == InitRestore /\ [][NextRestore]_vars

\* clearDirectory or the extraction is in progress
Restoring == xp.routine = "restore" /\ xp.pc \in {"readdir", "clear", "open", "extract"}

\* C24: the server is not running at any point while a restore clears the
\* folder or extracts into it, and a restore request for a running server
\* is refused with the folder as it was.
C24_StoppedWhileRestoring ==
  /\ Restoring => ~running
  /\ (xp.pc = "done" /\ xp.err = "server running") => tree = xp.before

\* the refusal alone: a request for a running server changes nothing
RestoreRefusedWhenRunning ==
  [][(xp.pc = "idle" /\ xp'.routine = "restore" /\ running)
       => (xp'.pc = "done" /\ xp'.err = "server running" /\ tree' = tree)]_vars

(***************************************************************************)
(* Update, toggle and delete requests from concurrent callers: one action  *)
(* is one access to persistence, the lock, the map or the engine           *)
(***************************************************************************)
\* the schedule values of the update forms: each schedule of the panel,
\* enabled or not, with one of two commands
RequestInputs ==
  {[ExecSchedule(ServiceTable, id) EXCEPT !.Enabled = en, !.Command = cmd] :
     id \in DOMAIN ServiceTable, en \in BOOLEAN, cmd \in {"say hi", "say bye"}}

\* what the handlers do after the record is saved:
\* scheduleService.UpdateSchedule(*schedule)
UpdateTodo(s) == IF s.Enabled THEN <<"remove", "add">> ELSE <<"remove">>

\* handlers.UpdateSchedule: models.GetScheduleByID (404 for no record), the
\* form parsed and validated into the record just read
BeginHandleUpdate(c) ==
  /\ call[c].pc = "idle"
  /\ RoomForEntries(1)
  /\ \E s \in RequestInputs :
       /\ s.ID \in DOMAIN dbSchedules
       /\ SetCall(c, [NoServiceCall EXCEPT !.pc = "save", !.op = "UpdateSchedule", !.id = s.ID,
                                           !.schedule = s, !.todo = UpdateTodo(s)])
  /\ UNCHANGED <<mu, schedVars, execVars, archVars, validated>>

\* handlers.ToggleSchedule: models.GetScheduleByID, then ToggleEnabled on
\* the record just read
BeginHandleToggle(c) ==
  /\ call[c].pc = "idle"
  /\ RoomForEntries(1)
  /\ \E id \in DOMAIN dbSchedules :
       LET s == [dbSchedules[id] EXCEPT !.Enabled = ~dbSchedules[id].Enabled]
       IN SetCall(c, [NoServiceCall EXCEPT !.pc = "save", !.op = "ToggleSchedule", !.id = id,
                                           !.schedule = s, !.todo = UpdateTodo(s)])
  /\ UNCHANGED <<mu, schedVars, execVars, archVars, validated>>

\* DB.Save(s): every field of the record is written under its primary key,
\* also when the row has been deleted meanwhile; an error ends the request
SaveRecord(c) ==
  /\ call[c].pc = "save"
  /\ \E ok \in BOOLEAN :
       IF ok
         THEN /\ dbSchedules' = MapPut(dbSchedules, call[c].id, call[c].schedule)
              /\ SetCall(c, Proceed(call[c]))
         ELSE /\ SetCall(c, [call[c] EXCEPT !.pc = "done", !.todo = <<>>, !.err = TRUE])
              /\ UNCHANGED dbSchedules
  /\ UNCHANGED <<nextScheduleID, schedules, entries, nextEntryID, loaded, lastCall>>
  /\ UNCHANGED <<mu, execVars, archVars, validated>>

UpdateStep(c) ==
  \/ LockStep(c)
  \/ SaveRecord(c)

RequestStep(c) ==
  \/ UpdateStep(c)
  \/ DeleteRecord(c)

\* update and toggle requests only
NextUpdates ==
  \/ \E c \in Callers : BeginHandleUpdate(c)
  \/ \E c \in Callers : BeginHandleToggle(c)
  \/ \E c \in Callers : UpdateStep(c)

SpecUpdates == InitService /\ [][NextUpdates]_vars

\* update, toggle and delete requests
NextRequests ==
  \/ \E c \in Callers : BeginHandleUpdate(c)
  \/ \E c \in Callers : BeginHandleToggle(c)
  \/ \E c \in Callers : BeginDeleteSchedule(c)
  \/ \E c \in Callers : RequestStep(c)

SpecRequests == InitService /\ [][NextRequests]_vars

\* no request is in progress
NoRequestRunning == \A c \in Callers : call[c].pc \in {"idle", "done"}

\* the engine registration of schedule id matches its record
RegistrationMatchesRecord(id) ==
  /\ id \in DOMAIN schedules <=> dbSchedules[id].Enabled
  /\ \A e \in entries : e.schedule.ID = id =>
       /\ id \in DOMAIN schedules /\ schedules[id] = e.ID
       /\ e.schedule = dbSchedules[id]

\* C25: once concurrent update and toggle requests for a schedule have all
\* completed, the schedule is registered exactly if the record persisted
\* last is enabled, and its live entry carries the fields of that record.
C25_RegistrationMatchesLastPersisted ==
  NoRequestRunning
    => \A id \in DOMAIN dbSchedules : RegistrationMatchesRecord(id)

\* C26: once a delete request has deleted its record and completed, the
\* engine has no live entry for that schedule ID, whatever the concurrent
\* update and toggle requests that read the record before do afterwards.
C26_NoEntryAfterDelete ==
  \A c \in Callers :
    (call[c].op = "DeleteSchedule" /\ call[c].pc = "done" /\ call[c].deleted)
      => ~\E e \in entries : e.schedule.ID = call[c].id

(***************************************************************************)
(* Backups created, rotated and deleted, one operation at a time           *)
(***************************************************************************)
\* handlers.DeleteBackup: a backup of another server answers 403; the file
\* is removed, a failure only printed; then the record is deleted, a
\* failure answers 500
HandleDeleteBackup ==
  /\ loaded
  /\ \E b \in backups :
       IF b.ServerID # ServerID
         THEN UNCHANGED <<backups, files>>
         ELSE /\ \/ files' = files \ {b.FilePath}
                 \/ UNCHANGED files
              /\ \/ backups' = backups \ {b}
                 \/ UNCHANGED backups
  /\ UNCHANGED <<running, backupPath, maxBackups, nextBackupID, now, proc, overlapped>>
  /\ UNCHANGED <<schedVars, archVars, lockVars, validated>>

NextRotation ==
  \/ \E p \in Procs : Quiet /\ Fire(p)
  \/ \E p \in Procs : Quiet /\ HandleCreateBackup(p)
  \/ \E p \in Procs : BackupStep(p)
  \/ Quiet /\ HandleDeleteBackup

SpecRotation == InitBackups /\ [][NextRotation]_vars

\* C27: between the backup operations of a server every one of its Backup
\* records names an archive file that is on disk, and no two of its records
\* name the same file, whatever suffixes the file names drew.
C27_RecordsNameDistinctExistingFiles ==
  Quiet =>
    \A b \in BackupsOf(backups, ServerID) :
      /\ b.FilePath \in files
      /\ \A c \in BackupsOf(backups, ServerID) : c.FilePath = b.FilePath => c = b

\* the second half alone
NoTwoRecordsOneFile ==
  \A b \in BackupsOf(backups, ServerID), c \in BackupsOf(backups, ServerID) :
    c.FilePath = b.FilePath => c = b

\* the backup operation of p has ended in CreateTarGzBackup's error
ArchiveFailed(p) ==
  proc[p].pc = "done" /\ proc[p].result = "error" /\ proc[p].did = <<"rotate">>

\* C28: when the archive creation of a backup operation fails, the backups
\* the server had before the operation are all still there: the record the
\* operation's rotation has read as the oldest is still stored and its file
\* is still on disk.
C28_FailedArchiveCostsNoBackup ==
  \A p \in Procs :
    (ArchiveFailed(p) /\ proc[p].oldest # NoBackup)
      => proc[p].oldest \in backups /\ proc[p].oldest.FilePath \in files

(***************************************************************************)
(* Concurrent firings of the start_server schedule                         *)
(***************************************************************************)
\* the engine runs every firing in a goroutine of its own
NextStart ==
  \/ \E p \in Procs : Fire(p)
  \/ \E p \in Procs : CommandStep(p)
  \/ SupervisorEvent

SpecStart == InitRestore /\ [][NextStart]_vars

\* the firing of p calls StartServer in this step
InvokesStartServer(p) ==
  proc[p].pc = "invoke" /\ proc'[p].pc = "done" /\ proc'[p].invoked = "StartServer"

\* the firing of q has started the server, which is still running
HasStartedServer(q) ==
  /\ proc[q].pc = "done" /\ proc[q].invoked = "StartServer" /\ proc[q].result = "ok"
  /\ running

\* C29: of the concurrent firings of start_server for a stopped server at
\* most one invokes StartServer: no firing invokes it after another firing
\* has started the server.
C29_OneFiringStartsServer ==
  [][\A p \in Procs, q \in Procs :
       (p # q /\ HasStartedServer(q)) => ~InvokesStartServer(p)]_vars

(***************************************************************************)
(* A restore that fails while extracting                                   *)
(***************************************************************************)
\* the part of the file system at and below a directory
Inside(t, dirPath) == {n \in t : n.path = dirPath \/ HasPrefix(n.path, dirPath \o <<"/">>)}

\* what the first k entries of an archive put at and below the destination:
\* each entry and the directories above it
ArchiveNodes(archive, k, dest) ==
  Inside(UNION {{[path |-> filepathJoin(dest, archive[j].name), isDir |-> archive[j].isDir]}
                  \cup {DirNode(a) : a \in SelfAndAncestors(Dir(filepathJoin(dest, archive[j].name)))} :
                j \in 1..k},
         dest)

\* the restore has returned an error from its extraction loop
FailedPartway ==
  /\ xp.routine = "restore" /\ xp.pc = "done"
  /\ xp.err \in {"io", "invalid path"}
  /\ xp.i >= 1

\* C30: a restore whose two checks passed and whose extraction failed at
\* entry i has returned an error and rolled nothing back: the target
\* directory exists and holds nothing but what the archive's entries up to
\* entry i put there, the previous contents being gone.  A restore that
\* ends without error leaves in the target directory exactly the contents
\* of its backup, whatever an earlier failed restore left there.
C30_FailedRestoreLeavesPartialTree ==
  /\ FailedPartway =>
       /\ xp.src \in Paths(xp.before) /\ xp.dest \in Paths(xp.before)
       /\ DirNode(xp.dest) \in tree
       /\ Inside(tree, xp.dest) \subseteq {DirNode(xp.dest)} \cup ArchiveNodes(xp.archive, xp.i, xp.dest)
       /\ ArchiveNodes(xp.archive, xp.i - 1, xp.dest) \subseteq tree
  /\ (xp.routine = "restore" /\ xp.pc = "done" /\ xp.err = "none") =>
       Inside(tree, xp.dest) = {DirNode(xp.dest)} \cup ArchiveNodes(xp.archive, Len(xp.archive), xp.dest)

\* the extraction has failed at its second entry: the file of the first
\* entry is in the server folder, the file that was there before is gone
C30_Witness ==
  /\ FailedPartway
  /\ xp.i = 2
  /\ xp.archive[1] = [name |-> <<"f">>, isDir |-> FALSE]
  /\ FileNode(ServerFolder \o <<"/", "f">>) \in tree
  /\ FileNode(Sentinel) \in xp.before
  /\ FileNode(Sentinel) \notin tree
====
